---- MODULE Spec2Model ----
(***************************************************************************)
(* Model of the Vic agent (src/agent/src/agent.py): the bounded per-session *)
(* context store, the identity resolver and the /chat/completions handler. *)
(*                                                                         *)
(* Python strings are sequences of one-character strings; Python's None is *)
(* the value None below, which is no such sequence, so that "" (the empty  *)
(* sequence) and None stay different values, as they are in the source.    *)
(***************************************************************************)
EXTENDS Integers, Sequences, FiniteSets, TLC

(***************************************************************************)
(* Bounds of the model.                                                    *)
(***************************************************************************)
\* agent.py:64 sets MAX_SESSIONS = 100; the model runs the same code with a
\* small capacity so that a handful of keys fills the store and evicts.
MAX_SESSIONS == 2
\* the largest number of '|'-separated parts of a generated session key
MaxParts == 3

\* messages in a message list given to extract_user_from_messages
MaxMsgs == 2

\* requests the server receives in one run
MaxRequests == 3

\* agent runs with tools in one run of the server
MaxRuns == 2

(***************************************************************************)
(* Strings.                                                                *)
(***************************************************************************)
None == << "<None>" >>

\* Python truthiness of an Optional[str]: None and "" are falsy
Truthy(s) == s /= None /\ s /= << >>

\* a or b
Or(a, b) == IF Truthy(a) THEN a ELSE b

Upper26 == <<"A","B","C","D","E","F","G","H","I","J","K","L","M",
             "N","O","P","Q","R","S","T","U","V","W","X","Y","Z">>
Lower26 == <<"a","b","c","d","e","f","g","h","i","j","k","l","m",
             "n","o","p","q","r","s","t","u","v","w","x","y","z">>

LowerChar(c) ==
    IF \E i \in DOMAIN Upper26 : Upper26[i] = c
    THEN Lower26[CHOOSE i \in DOMAIN Upper26 : Upper26[i] = c]
    ELSE c

\* str.lower()
Lower(s) == [i \in DOMAIN s |-> LowerChar(s[i])]

\* sep in s
Contains(s, sep) == \E i \in DOMAIN s : s[i] = sep

\* index of the first sep in s (0 when there is none)
FirstIndex(s, sep) ==
    IF Contains(s, sep)
    THEN CHOOSE i \in DOMAIN s : s[i] = sep /\ \A j \in 1..(i - 1) : s[j] /= sep
    ELSE 0

\* str.split(sep) for a one-character separator: every occurrence splits
RECURSIVE Split(_, _)
Split(s, sep) ==
    IF ~Contains(s, sep)
    THEN << s >>
    ELSE LET i == FirstIndex(s, sep)
         IN  << SubSeq(s, 1, i - 1) >> \o Split(SubSeq(s, i + 1, Len(s)), sep)

\* sep.join(parts)
RECURSIVE Join(_, _)
Join(parts, sep) ==
    IF Len(parts) = 0 THEN << >>
    ELSE IF Len(parts) = 1 THEN parts[1]
    ELSE parts[1] \o << sep >> \o Join(Tail(parts), sep)

(***************************************************************************)
(* Text used by the inputs.                                                *)
(***************************************************************************)
sAlice == <<"A","l","i","c","e">>
sBob   == <<"B","o","b">>
sUser  == <<"u","s","e","r">>
sUSER  == <<"U","S","E","R">>
sUsEr  == <<"U","s","E","r">>
sUsers == <<"u","s","e","r","s">>
s42    == <<"4","2">>
sX     == <<"x">>
sNoSeparator == <<"N","o","S","e","p","a","r","a","t","o","r">>
sEmpty == << >>

(***************************************************************************)
(* Identity resolver: the session key of a request.                        *)
(*                                                                         *)
(* A request is a record                                                   *)
(*   query    : [custom_session_id, customSessionId]                       *)
(*   body     : [custom_session_id, customSessionId, session_settings,     *)
(*               metadata, messages]                                       *)
(*   headers  : [x_custom_session_id, x_hume_custom_session_id]            *)
(* where a key that is not in the mapping reads as None (dict.get), and    *)
(* session_settings and metadata are mappings with the two key spellings   *)
(* and a flag `other` saying that the mapping holds some other key.        *)
(***************************************************************************)

\* truthiness of a dict: it holds at least one key
DictTruthy(d) ==
    d.customSessionId /= None \/ d.custom_session_id /= None \/ d.other

\* HeaderSessionId that reads the first header name only
HeaderSessionId_FirstOnly(headers) ==
    IF Truthy(headers.x_custom_session_id) THEN headers.x_custom_session_id
    ELSE None

\* the loop over the two header names, first truthy value returned
HeaderSessionId(headers) ==
    IF Truthy(headers.x_custom_session_id) THEN headers.x_custom_session_id
    ELSE IF Truthy(headers.x_hume_custom_session_id)
         THEN headers.x_hume_custom_session_id
    ELSE None

MetadataSessionId(req) ==
    LET metadata == req.body.metadata
        sid == Or(metadata.customSessionId, metadata.custom_session_id)
    IN  IF DictTruthy(metadata) /\ Truthy(sid) THEN sid
        ELSE HeaderSessionId(req.headers)

SettingsSessionId(req) ==
    LET session_settings == req.body.session_settings
        sid == Or(session_settings.customSessionId,
                  session_settings.custom_session_id)
    IN  IF DictTruthy(session_settings) /\ Truthy(sid) THEN sid
        ELSE MetadataSessionId(req)

BodySessionId(req) ==
    LET sid == Or(req.body.custom_session_id, req.body.customSessionId)
    IN  IF Truthy(sid) THEN sid ELSE SettingsSessionId(req)

\* extract_session_id that reads the body's top level before the query string
extract_session_id_BodyFirst(req) ==
    LET b == Or(req.body.custom_session_id, req.body.customSessionId)
        q == Or(req.query.custom_session_id, req.query.customSessionId)
    IN  IF Truthy(b) THEN b
        ELSE IF Truthy(q) THEN q
        ELSE SettingsSessionId(req)

extract_session_id(req) ==
    LET sid == Or(req.query.custom_session_id, req.query.customSessionId)
    IN  IF Truthy(sid) THEN sid ELSE BodySessionId(req)

(***************************************************************************)
(* Identity resolver: name and id from a session key "name|userId".        *)
(***************************************************************************)
Bar == "|"

\* extract_user_from_session that compares the name with 'user' as written
extract_user_from_session_CaseSensitive(session_id) ==
    IF ~Truthy(session_id) \/ ~Contains(session_id, Bar)
    THEN << None, None >>
    ELSE LET parts == Split(session_id, Bar)
         IN  << IF parts[1] /= << >> /\ parts[1] /= sUser THEN parts[1] ELSE None,
                IF Len(parts) > 1 THEN parts[2] ELSE None >>

extract_user_from_session(session_id) ==
    IF ~Truthy(session_id) \/ ~Contains(session_id, Bar)
    THEN << None, None >>
    ELSE LET parts == Split(session_id, Bar)
             user_name == IF parts[1] /= << >> /\ Lower(parts[1]) /= sUser
                          THEN parts[1] ELSE None
             user_id == IF Len(parts) > 1 THEN parts[2] ELSE None
         IN  << user_name, user_id >>

(***************************************************************************)
(* Identity resolver: name and id from the first system message.           *)
(* re.search(r'<label>\s*([^\n]+)', content, re.IGNORECASE) is computed as *)
(* the regex engine computes it: leftmost start, \s* greedy and backed off *)
(* one character at a time, [^\n]+ greedy.                                 *)
(***************************************************************************)
NL == "\n"

\* \s
IsSpace(c) == c \in {" ", "\t", NL, "\r"}

\* the label, letters in any case, stands at position i of s
LabelAt(s, i, label) ==
    /\ i + Len(label) - 1 <= Len(s)
    /\ Lower(SubSeq(s, i, i + Len(label) - 1)) = label

\* the first position from e on that holds no whitespace (Len(s)+1 if none)
SkipSpace(s, e) ==
    IF \E w \in e..Len(s) : ~IsSpace(s[w])
    THEN CHOOSE w \in e..Len(s) : ~IsSpace(s[w]) /\ \A j \in e..(w - 1) : IsSpace(s[j])
    ELSE Len(s) + 1

\* the end of the greedy [^\n]+ that starts at p
LineEnd(s, p) ==
    IF \E q \in p..Len(s) : s[q] = NL
    THEN (CHOOSE q \in p..Len(s) : s[q] = NL /\ \A j \in p..(q - 1) : s[j] /= NL) - 1
    ELSE Len(s)

\* where group 1 starts when \s*([^\n]+) is matched from position e (0: no match)
GroupStart(s, e) ==
    LET w == SkipSpace(s, e)
    IN  IF w <= Len(s) THEN w
        ELSE IF \E p \in e..Len(s) : s[p] /= NL
             THEN CHOOSE p \in e..Len(s) : s[p] /= NL /\ \A j \in (p + 1)..Len(s) : s[j] = NL
             ELSE 0

\* the pattern matches with the label at position i
MatchAt(s, i, label) == LabelAt(s, i, label) /\ GroupStart(s, i + Len(label)) /= 0

\* group(1) of the search, None when the search finds nothing
RegexField(s, label) ==
    IF \E i \in DOMAIN s : MatchAt(s, i, label)
    THEN LET i == CHOOSE k \in DOMAIN s :
                      MatchAt(s, k, label) /\ \A j \in 1..(k - 1) : ~MatchAt(s, j, label)
             p == GroupStart(s, i + Len(label))
         IN  SubSeq(s, p, LineEnd(s, p))
    ELSE None

\* str.strip()
RECURSIVE Strip(_)
Strip(s) ==
    IF s = << >> THEN s
    ELSE IF IsSpace(Head(s)) THEN Strip(Tail(s))
    ELSE IF IsSpace(s[Len(s)]) THEN Strip(SubSeq(s, 1, Len(s) - 1))
    ELSE s

lblName   == <<"n","a","m","e",":">>
lblUserId == <<"u","s","e","r","_","i","d",":">>
sGuest     == <<"g","u","e","s","t">>
sAnonymous == <<"a","n","o","n","y","m","o","u","s">>

\* the name: field of one system message content
SystemName(content) ==
    LET m == RegexField(content, lblName)
    IN  IF m = None THEN None
        ELSE IF Lower(Strip(m)) \notin {sGuest, sAnonymous, << >>} THEN Strip(m)
        ELSE None

\* the user_id: field of one system message content
SystemUserId(content) ==
    LET m == RegexField(content, lblUserId)
    IN  IF m = None THEN None
        ELSE IF Lower(Strip(m)) \notin {sAnonymous, << >>} THEN Strip(m)
        ELSE None

\* the heading of the memory section, matched letter for letter
lblZep == <<"#","#"," ","W","H","A","T"," ","I"," ","R","E","M","E","M","B","E","R">>

\* the text \n## that the lookahead (?=\n##|\Z) looks for
sNextHeading == << NL, "#", "#" >>

\* t stands at position i of s, letters compared as they are
TextAt(s, i, t) ==
    /\ i + Len(t) - 1 <= Len(s)
    /\ SubSeq(s, i, i + Len(t) - 1) = t

\* .*?:\n from position e: the colon that ends the heading line (0: none);
\* . matches no newline, so the colon is on the line that e is on
HeadingColon(s, e) ==
    LET Ends(c) == /\ s[c] = ":"
                   /\ c + 1 <= Len(s)
                   /\ s[c + 1] = NL
                   /\ \A j \in e..(c - 1) : s[j] /= NL
    IN  IF \E c \in e..Len(s) : Ends(c)
        THEN CHOOSE c \in e..Len(s) : Ends(c) /\ \A j \in e..(c - 1) : ~Ends(j)
        ELSE 0

\* the pattern matches with the heading at position i
ZepAt(s, i) == TextAt(s, i, lblZep) /\ HeadingColon(s, i + Len(lblZep)) /= 0

\* the end of the lazy [\s\S]*? that starts at g: it stops before the first
\* \n## and at the end of the text otherwise
SectionEnd(s, g) ==
    IF \E q \in g..Len(s) : TextAt(s, q, sNextHeading)
    THEN (CHOOSE q \in g..Len(s) :
              TextAt(s, q, sNextHeading) /\ \A j \in g..(q - 1) : ~TextAt(s, j, sNextHeading)) - 1
    ELSE Len(s)

\* zep_match.group(1).strip() of one system message content, None without a match
ZepContext(content) ==
    IF \E i \in DOMAIN content : ZepAt(content, i)
    THEN LET i == CHOOSE k \in DOMAIN content :
                      ZepAt(content, k) /\ \A j \in 1..(k - 1) : ~ZepAt(content, j)
             g == HeadingColon(content, i + Len(lblZep)) + 2
         IN  Strip(SubSeq(content, g, SectionEnd(content, g)))
    ELSE None

\* the loop without its break: the last system message is the one read
extract_user_from_messages_Last(messages) ==
    IF \E i \in DOMAIN messages : messages[i].role = "system"
    THEN LET i == CHOOSE k \in DOMAIN messages :
                      /\ messages[k].role = "system"
                      /\ \A j \in (k + 1)..Len(messages) : messages[j].role /= "system"
         IN  << SystemName(messages[i].content), SystemUserId(messages[i].content),
                ZepContext(messages[i].content) >>
    ELSE << None, None, None >>

\* a message is [role |-> ..., content |-> ...]; only the first system message is read
extract_user_from_messages(messages) ==
    IF \E i \in DOMAIN messages : messages[i].role = "system"
    THEN LET i == CHOOSE k \in DOMAIN messages :
                      /\ messages[k].role = "system"
                      /\ \A j \in 1..(k - 1) : messages[j].role /= "system"
         IN  << SystemName(messages[i].content), SystemUserId(messages[i].content),
                ZepContext(messages[i].content) >>
    ELSE << None, None, None >>

(***************************************************************************)
(* Session store: _session_contexts and SessionContext.                    *)
(*                                                                         *)
(* session_contexts is the OrderedDict as the sequence of its entries,     *)
(* oldest first; an entry refers to its SessionContext object by the       *)
(* object's identity, and heap holds the objects, so that a caller that    *)
(* keeps the returned object writes to the object and not to the store.    *)
(***************************************************************************)
VARIABLES session_contexts, heap, touched, evicted, calls, turn, arg, result, pc,
          flights, response, requests, pool

vars == << session_contexts, heap, touched, evicted, calls, turn, arg, result, pc,
          flights, response, requests, pool >>

\* the values time.time() may return
Times == {1, 2}

\* SessionContext(), created at time now
SessionContext(now) ==
    [ turns_since_name_used |-> 0,
      name_used_in_greeting |-> FALSE,
      greeted_this_session  |-> FALSE,
      last_topic            |-> << >>,
      last_interaction_time |-> now,
      user_name             |-> None,
      context_fetched       |-> FALSE,
      current_wine          |-> None,
      preferred_region      |-> None,
      budget_min            |-> None,
      budget_max            |-> None,
      occasion              |-> None,
      food_pairing          |-> None ]

\* the keys of the OrderedDict
Live(sc) == { sc[i].key : i \in DOMAIN sc }

\* _session_contexts[key]
Lookup(sc, key) == (CHOOSE i \in DOMAIN sc : sc[i].key = key)

CtxOf(sc, key) == sc[Lookup(sc, key)].ctx

\* MoveToEnd that leaves the order alone (first in, first out)
MoveToEnd_Stay(sc, key) == sc

\* OrderedDict.move_to_end(key)
MoveToEnd(sc, key) ==
    LET e == sc[Lookup(sc, key)]
        NotKey(x) == x.key /= key
    IN  SelectSeq(sc, NotKey) \o << e >>

\* PopWhileFull with the loop test written > for >=
RECURSIVE PopWhileFull_OffByOne(_)
PopWhileFull_OffByOne(sc) ==
    IF Len(sc) > MAX_SESSIONS THEN PopWhileFull_OffByOne(Tail(sc)) ELSE sc

\* PopWhileFull that empties a full store
PopWhileFull_All(sc) ==
    IF Len(sc) >= MAX_SESSIONS THEN << >> ELSE sc

\* while len(_session_contexts) >= MAX_SESSIONS: popitem(last=False)
RECURSIVE PopWhileFull(_)
PopWhileFull(sc) ==
    IF Len(sc) >= MAX_SESSIONS THEN PopWhileFull(Tail(sc)) ELSE sc

\* the objects the store refers to
Referenced(sc) == { sc[i].ctx : i \in DOMAIN sc }

\* The identity of a newly constructed object. Identities only tell objects
\* apart, so an object is named by the key it is made for and the least
\* number that no object of the heap bears for that key.
NewObj(hp, key) ==
    [ key |-> key,
      gen |-> CHOOSE n \in 0..Cardinality(DOMAIN hp) :
                 /\ [key |-> key, gen |-> n] \notin DOMAIN hp
                 /\ \A m \in 0..(n - 1) : [key |-> key, gen |-> m] \in DOMAIN hp ]

\* the heap once object o is constructed with value c
Allocate(hp, o, c) ==
    [x \in DOMAIN hp \cup {o} |-> IF x = o THEN c ELSE hp[x]]

\* the heap without the objects that no reference of refs holds any more
Collect(hp, refs) == [x \in DOMAIN hp \cap refs |-> hp[x]]

\* get_session_context that hands out a default-initialized record on a hit
get_session_context_Reset(sc, hp, session_id, now) ==
    IF session_id \in Live(sc)
    THEN [ store |-> MoveToEnd(sc, session_id),
           heap  |-> [hp EXCEPT ![CtxOf(sc, session_id)] = SessionContext(now)],
           ctx   |-> CtxOf(sc, session_id) ]
    ELSE LET popped == PopWhileFull(sc)
             o == NewObj(hp, session_id)
             stored == Append(popped, [key |-> session_id, ctx |-> o])
         IN  [ store |-> stored,
               heap  |-> Allocate(hp, o, SessionContext(now)),
               ctx   |-> o ]

\* get_session_context whose membership test misses a key that is present, as
\* when a second caller ran between the test and the insert: it constructs a
\* record and stores it under the key
get_session_context_Racy(sc, hp, session_id, now) ==
    LET popped == PopWhileFull(sc)
        o == NewObj(hp, session_id)
        stored == IF session_id \in Live(popped)
                  THEN [popped EXCEPT ![Lookup(popped, session_id)].ctx = o]
                  ELSE Append(popped, [key |-> session_id, ctx |-> o])
    IN  [ store |-> stored,
          heap  |-> Allocate(hp, o, SessionContext(now)),
          ctx   |-> o ]

\* get_session_context that refreshes last_interaction_time on a hit
get_session_context_Refresh(sc, hp, session_id, now) ==
    IF session_id \in Live(sc)
    THEN [ store |-> MoveToEnd(sc, session_id),
           heap  |-> [hp EXCEPT ![CtxOf(sc, session_id)].last_interaction_time = now],
           ctx   |-> CtxOf(sc, session_id) ]
    ELSE LET popped == PopWhileFull(sc)
             o == NewObj(hp, session_id)
             stored == Append(popped, [key |-> session_id, ctx |-> o])
         IN  [ store |-> stored,
               heap  |-> Allocate(hp, o, SessionContext(now)),
               ctx   |-> o ]

\* get_session_context that, on a full store, makes the new record out of the
\* one it evicts instead of constructing it
get_session_context_Recycle(sc, hp, session_id, now) ==
    IF session_id \in Live(sc)
    THEN [ store |-> MoveToEnd(sc, session_id),
           heap  |-> hp,
           ctx   |-> CtxOf(sc, session_id) ]
    ELSE LET popped == PopWhileFull(sc)
             o == NewObj(hp, session_id)
             stored == Append(popped, [key |-> session_id, ctx |-> o])
         IN  [ store |-> stored,
               heap  |-> Allocate(hp, o, IF Len(sc) >= MAX_SESSIONS /\ Len(sc) > 0
                                         THEN hp[sc[1].ctx]
                                         ELSE SessionContext(now)),
               ctx   |-> o ]

\* get_session_context(session_id): the store and heap after the call, and
\* the object returned
get_session_context(sc, hp, session_id, now) ==
    IF session_id \in Live(sc)
    THEN [ store |-> MoveToEnd(sc, session_id),
           heap  |-> hp,
           ctx   |-> CtxOf(sc, session_id) ]
    ELSE LET popped == PopWhileFull(sc)
             o == NewObj(hp, session_id)
             stored == Append(popped, [key |-> session_id, ctx |-> o])
         IN  [ store |-> stored,
               heap  |-> Allocate(hp, o, SessionContext(now)),
               ctx   |-> o ]

(***************************************************************************)
(* /chat/completions, from the parsed body to the agent's dependencies.    *)
(***************************************************************************)
sHello    == <<"H","e","l","l","o","!">>
sNameOpen == <<"[","U","s","e","r","'","s"," ","n","a","m","e"," ","i","s"," ">>
sNameShut == <<"]"," ">>

\* str(uuid.uuid4()): a value no other string of the run equals; the n-th one
Uuid(n) == [i \in 1..n |-> "<uuid4>"]

\* a uuid4 that differs from every session id in use
FreshUuid(sc) ==
    Uuid(CHOOSE n \in 1..(Len(sc) + 1) :
            /\ Uuid(n) \notin Live(sc)
            /\ \A m \in 1..(n - 1) : Uuid(m) \in Live(sc))

\* LastUserContent that reads the list forwards: the first user message
LastUserContent_First(messages) ==
    IF \E i \in DOMAIN messages : messages[i].role = "user"
    THEN LET i == CHOOSE k \in DOMAIN messages :
                      /\ messages[k].role = "user"
                      /\ \A j \in 1..(k - 1) : messages[j].role /= "user"
         IN  messages[i].content
    ELSE << >>

\* the content of the last message with role "user", "" when there is none
LastUserContent(messages) ==
    IF \E i \in DOMAIN messages : messages[i].role = "user"
    THEN LET i == CHOOSE k \in DOMAIN messages :
                      /\ messages[k].role = "user"
                      /\ \A j \in (k + 1)..Len(messages) : messages[j].role /= "user"
         IN  messages[i].content
    ELSE << >>

\* user_message = ...; if not user_message: user_message = "Hello!"
UserMessage(messages) ==
    IF Truthy(LastUserContent(messages)) THEN LastUserContent(messages) ELSE sHello

\* A message content of /copilotkit is a string or a list of items:
\* list tells which (isinstance(content, list)), text holds the string and
\* items the list, an item being [type |-> ..., text |-> ...].
Str(text)   == [list |-> FALSE, text |-> text, items |-> << >>]
List(items) == [list |-> TRUE, text |-> << >>, items |-> items]
Item(type, text) == [type |-> type, text |-> text]

\* for item in content: if ... item.get("type") == "text": the text of the
\* first such item, "" when the list has none
FirstTextItem(items) ==
    IF \E i \in DOMAIN items : items[i].type = "text"
    THEN items[CHOOSE k \in DOMAIN items :
                  /\ items[k].type = "text"
                  /\ \A j \in 1..(k - 1) : items[j].type /= "text"].text
    ELSE << >>

\* /copilotkit: the user message, from the last message with role "user"
CopilotUserMessage(messages) ==
    LET content == IF \E i \in DOMAIN messages : messages[i].role = "user"
                   THEN messages[CHOOSE k \in DOMAIN messages :
                            /\ messages[k].role = "user"
                            /\ \A j \in (k + 1)..Len(messages) : messages[j].role /= "user"].content
                   ELSE Str(<< >>)
        user_message == IF content.list THEN FirstTextItem(content.items) ELSE content.text
    IN  IF Truthy(user_message) THEN user_message ELSE sHello

\* Prefer with the session key's value first
Prefer_KeyFirst(sys_value, key_value) ==
    IF Truthy(key_value) THEN key_value ELSE sys_value

\* if sys_name: user_name = sys_name / if sys_id: user_id = sys_id
Prefer(sys_value, key_value) == IF Truthy(sys_value) THEN sys_value ELSE key_value

\* CaptureName without the "not ctx.user_name" test
CaptureName_Overwrite(c, user_name) ==
    IF Truthy(user_name) THEN [c EXCEPT !.user_name = user_name] ELSE c

\* if user_name and not ctx.user_name: ctx.user_name = user_name
CaptureName(c, user_name) ==
    IF Truthy(user_name) /\ ~Truthy(c.user_name)
    THEN [c EXCEPT !.user_name = user_name]
    ELSE c

\* Prompt that annotates with whatever name it is given, the empty one too
Prompt_Always(user_name, user_message) ==
    sNameOpen \o (IF user_name = None THEN << >> ELSE user_name) \o sNameShut
       \o user_message

\* prompt = user_message, or f"[User's name is {user_name}] {user_message}"
Prompt(user_name, user_message) ==
    IF Truthy(user_name)
    THEN sNameOpen \o user_name \o sNameShut \o user_message
    ELSE user_message

\* the handler from messages = body.get("messages", []) to the user message:
\* the locals that depend on the request alone
Identity(req) ==
    LET messages   == req.body.messages
        session_id == extract_session_id(req)
        key_user   == extract_user_from_session(session_id)
        sys_user   == extract_user_from_messages(messages)
        user_name  == Prefer(sys_user[1], key_user[1])
    IN  [ req          |-> req,
          session_id   |-> session_id,
          key_name     |-> key_user[1],
          key_id       |-> key_user[2],
          sys_name     |-> sys_user[1],
          sys_id       |-> sys_user[2],
          user_name    |-> user_name,
          user_id      |-> Prefer(sys_user[2], key_user[2]),
          user_message |-> UserMessage(messages),
          prompt       |-> Prompt(user_name, UserMessage(messages)) ]

\* SessionStep of a handler that does not use the store
SessionStep_NoLookup(id, sc, hp, now, uuid) ==
    [ ctx   |-> None,
      deps  |-> [ session_id |-> IF Truthy(id.session_id) THEN id.session_id ELSE uuid,
                  user_id    |-> id.user_id ],
      store |-> sc,
      heap  |-> hp ]

\* SessionStep that looks the session up under the id of the deps, also when
\* the request carries no session id
SessionStep_StoreUuid(id, sc, hp, now, uuid) ==
    LET sid == IF Truthy(id.session_id) THEN id.session_id ELSE uuid
        got == get_session_context(sc, hp, sid, now)
    IN  [ ctx   |-> got.ctx,
          deps  |-> [session_id |-> sid, user_id |-> id.user_id],
          store |-> got.store,
          heap  |-> [got.heap EXCEPT ![got.ctx] = CaptureName(@, id.user_name)] ]

\* the handler from "if session_id:" to deps = DionysusDeps(...), on the
\* locals id: the object it got, the deps, and the store and heap it leaves;
\* uuid is what str(uuid.uuid4()) gives
SessionStep(id, sc, hp, now, uuid) ==
    LET got == IF Truthy(id.session_id)
               THEN get_session_context(sc, hp, id.session_id, now)
               ELSE [store |-> sc, heap |-> hp, ctx |-> None]
    IN  [ ctx   |-> got.ctx,
          deps  |-> [ session_id |-> IF Truthy(id.session_id) THEN id.session_id
                                     ELSE uuid,
                      user_id    |-> id.user_id ],
          store |-> got.store,
          heap  |-> IF Truthy(id.session_id)
                    THEN [got.heap EXCEPT ![got.ctx] = CaptureName(@, id.user_name)]
                    ELSE got.heap ]

(***************************************************************************)
(* Agent tools. A tool reads its session record when it is called, awaits  *)
(* the data access and goes on with the record it read. The data-access    *)
(* functions answer with a list of rows, empty when nothing is found; a    *)
(* price or a year is the text of its digits.                              *)
(***************************************************************************)
\* Python truthiness of an Optional[float]: None and 0 are falsy
NumTruthy(x) == x /= None /\ x /= << "0" >>

sNoWines == <<"I"," ","c","o","u","l","d","n","'","t"," ","f","i","n","d"," ","w","i","n","e","s"," ","m","a","t","c","h","i","n","g"," ","y","o","u","r"," ","c","r","i","t","e","r","i","a","."," ","W","o","u","l","d"," ","y","o","u"," ","l","i","k","e"," ","m","e"," ","t","o"," ","s","u","g","g","e","s","t"," ","s","o","m","e"," ","a","l","t","e","r","n","a","t","i","v","e","s","?">>
sFound    == <<"F","o","u","n","d"," ">>
sWines    == <<" ","w","i","n","e","s">>
sMatching == <<" ","m","a","t","c","h","i","n","g"," ">>
sUnder    == <<"u","n","d","e","r"," ","£">>
sPriceOnRequest == <<"P","r","i","c","e"," ","o","n"," ","r","e","q","u","e","s","t">>
sBurgundy == <<"B","u","r","g","u","n","d","y">>
sMargaux  == <<"M","a","r","g","a","u","x">>
sLatour   == <<"L","a","t","o","u","r">>
sBeef     == <<"b","e","e","f">>
s10       == <<"1","0">>
s20       == <<"2","0">>
s2015     == <<"2","0","1","5">>
Digits    == <<"0","1","2","3","4","5","6","7","8","9">>

\* str(n)
RECURSIVE IntText(_)
IntText(n) ==
    IF n < 10 THEN << Digits[n + 1] >>
    ELSE IntText(n \div 10) \o << Digits[(n % 10) + 1] >>

\* sep.join(parts) for a separator of any length
RECURSIVE JoinText(_, _)
JoinText(parts, sep) ==
    IF Len(parts) = 0 THEN << >>
    ELSE IF Len(parts) = 1 THEN parts[1]
    ELSE parts[1] \o sep \o JoinText(Tail(parts), sep)

\* the arguments of a tool call; a tool reads the ones it declares
NoArgs ==
    [ query |-> None, region |-> None, country |-> None, producer |-> None,
      grape |-> None, min_price |-> None, max_price |-> None, vintage |-> None,
      wine_slug |-> None, food |-> None ]

\* search_wines_tool: one line of the listing
WineLine(wine) ==
    <<"-"," ">>
       \o (IF Truthy(wine.vintage) THEN wine.vintage \o <<" ">> ELSE << >>)
       \o wine.name \o <<" ","(">> \o wine.winery \o <<")"," ","-"," ">>
       \o wine.region \o <<" ","-"," ">>
       \o (IF NumTruthy(wine.price_retail) THEN <<"£">> \o wine.price_retail
           ELSE sPriceOnRequest)

\* search_wines_tool: filter_desc
FilterDesc(args) ==
    (IF Truthy(args.query) THEN << <<"'">> \o args.query \o <<"'">> >> ELSE << >>)
       \o (IF Truthy(args.region) THEN << args.region >> ELSE << >>)
       \o (IF Truthy(args.producer) THEN << args.producer >> ELSE << >>)
       \o (IF Truthy(args.grape) THEN << args.grape >> ELSE << >>)
       \o (IF NumTruthy(args.max_price) THEN << sUnder \o args.max_price >> ELSE << >>)

\* search_wines_tool after the await that answers nothing when no wine is found
search_wines_tool_resume_Silent(c, args, wines) ==
    [ ctx |-> c, return |-> << >> ]

\* search_wines_tool after the await that writes its three filters whatever
\* the search found and whatever the arguments are
search_wines_tool_resume_Eager(c, args, wines) ==
    [ ctx |-> [c EXCEPT !.preferred_region = args.region,
                        !.budget_min = args.min_price,
                        !.budget_max = args.max_price],
      return |-> IF wines /= << >> THEN sFound ELSE sNoWines ]

\* search_wines_tool from "if wines:" on: the record as the tool leaves it
\* and the text it returns
search_wines_tool_resume(c, args, wines) ==
    IF wines /= << >>
    THEN [ ctx |-> [c EXCEPT
                      !.preferred_region = IF Truthy(args.region) THEN args.region ELSE @,
                      !.budget_min = IF NumTruthy(args.min_price) THEN args.min_price ELSE @,
                      !.budget_max = IF NumTruthy(args.max_price) THEN args.max_price ELSE @],
           return |-> sFound \o IntText(Len(wines)) \o sWines
                         \o (IF FilterDesc(args) /= << >>
                             THEN sMatching \o JoinText(FilterDesc(args), <<","," ">>)
                             ELSE << >>)
                         \o <<":", NL>>
                         \o JoinText([i \in DOMAIN wines |-> WineLine(wines[i])], << NL >>) ]
    ELSE [ ctx |-> c, return |-> sNoWines ]

\* get_wine_details_tool from "if wine:" on: the record as the tool leaves it
get_wine_details_tool_resume(c, wines) ==
    IF wines /= << >> THEN [c EXCEPT !.current_wine = wines[1].name] ELSE c

\* get_wines_by_region_tool up to its await
get_wines_by_region_tool_call(c, args) ==
    [c EXCEPT !.preferred_region = args.region]

\* get_wines_by_price_tool up to its await
get_wines_by_price_tool_call(c, args) ==
    [c EXCEPT !.budget_min = args.min_price, !.budget_max = args.max_price]

\* get_food_pairing_tool up to its first await
get_food_pairing_tool_call(c, args) ==
    [c EXCEPT !.food_pairing = args.food]

\* what a tool writes to its record before it awaits
BeforeAwait(tool, c, args) ==
    CASE tool = "get_wines_by_region_tool" -> get_wines_by_region_tool_call(c, args)
      [] tool = "get_wines_by_price_tool"  -> get_wines_by_price_tool_call(c, args)
      [] tool = "get_food_pairing_tool"    -> get_food_pairing_tool_call(c, args)
      [] OTHER -> c

\* what a tool writes to its record once the data access has answered
AfterAwait(tool, c, args, wines) ==
    CASE tool = "search_wines_tool"     -> search_wines_tool_resume(c, args, wines).ctx
      [] tool = "get_wine_details_tool" -> get_wine_details_tool_resume(c, wines)
      [] OTHER -> c

\* a row of the wines table
Wine == [ name |-> sMargaux, winery |-> sLatour, region |-> sBurgundy,
          price_retail |-> s20, vintage |-> None ]

\* what a data-access call may answer
WineRows == { << >>, << Wine >> }

(***************************************************************************)
(* Inputs.                                                                 *)
(***************************************************************************)
NoDict == [customSessionId |-> None, custom_session_id |-> None, other |-> FALSE]

\* a request whose session key travels in the query string and/or the body
Request(query_key, body_key, messages) ==
    [ query   |-> [custom_session_id |-> query_key, customSessionId |-> None],
      body    |-> [ custom_session_id |-> body_key, customSessionId |-> None,
                    session_settings |-> NoDict, metadata |-> NoDict,
                    messages |-> messages ],
      headers |-> [x_custom_session_id |-> None, x_hume_custom_session_id |-> None] ]

kAlice42  == <<"A","l","i","c","e","|","4","2">>
kUser42   == <<"u","s","e","r","|","4","2">>
kAliceBar == <<"A","l","i","c","e","|">>
kBob42x   == <<"B","o","b","|","4","2","|","x">>
ChatKeys == {kAlice42, kUser42, kAliceBar, kBob42x}

sHi == <<"h","i">>
sysBob   == <<"C","o","n","t","e","x","t","\n","n","a","m","e",":"," ","B","o","b","\n","u","s","e","r","_","i","d",":"," ","7">>
sysAlice == <<"n","a","m","e",":"," ","A","l","i","c","e">>
sysGuest == <<"N","a","m","e",":"," ","G","u","e","s","t","\n","U","S","E","R","_","I","D",":"," ","a","n","o","n","y","m","o","u","s">>
s7 == <<"7">>

msgUser(text)   == [role |-> "user", content |-> text]
msgSystem(text) == [role |-> "system", content |-> text]

plain     == << msgUser(sX), msgUser(sHi) >>
withBob   == << msgSystem(sysBob), msgUser(sHi) >>
withAlice == << msgSystem(sysAlice) >>
withGuest == << msgSystem(sysGuest), msgUser(sHi) >>

\* the requests of the /chat/completions turns; a turn is given by the
\* position of its request in this list
ChatRequests ==
    << Request(kAlice42, None, plain),  Request(kAlice42, None, withBob),
       Request(kUser42, None, plain),   Request(kUser42, None, withBob),
       Request(kBob42x, None, withAlice),
       Request(kAliceBar, None, plain), Request(kAliceBar, None, withGuest),
       Request(None, None, plain),      Request(None, None, withBob),
       Request(kAlice42, kUser42, plain),
       Request(sEmpty, kUser42, plain) >>

\* the carriers of extract_session_id: each holds nothing, "" or its own value
Slot(v) == {None, sEmpty, v}
Dicts(camel, snake) ==
    { [customSessionId |-> c, custom_session_id |-> s, other |-> o] :
        c \in Slot(camel), s \in Slot(snake), o \in BOOLEAN }
EnvelopeRequests ==
    { [ query   |-> [custom_session_id |-> q1, customSessionId |-> q2],
        body    |-> [ custom_session_id |-> b1, customSessionId |-> b2,
                      session_settings |-> ss, metadata |-> md,
                      messages |-> << >> ],
        headers |-> [x_custom_session_id |-> h1, x_hume_custom_session_id |-> h2] ] :
        q1 \in Slot(<<"q","1">>), q2 \in Slot(<<"q","2">>),
        b1 \in Slot(<<"b","1">>), b2 \in Slot(<<"b","2">>),
        ss \in { d \in Dicts(<<"s","1">>, <<"s","2">>) :
                   d.other => d.customSessionId = None /\ d.custom_session_id = None },
        md \in { d \in Dicts(<<"m","1">>, <<"m","2">>) :
                   d.other => d.customSessionId = None /\ d.custom_session_id = None },
        h1 \in Slot(<<"h","1">>), h2 \in Slot(<<"h","2">>) }

\* session keys: up to MaxParts parts joined by '|', and the absent key
KeyParts == {sEmpty, sUser, sUSER, sUsEr, sUsers, sAlice, s42, sX, sNoSeparator}
SessionKeyInputs ==
    { Join(ps, Bar) : ps \in UNION { [1..n -> KeyParts] : n \in 1..MaxParts } }
    \cup {None}

(***************************************************************************)
(* The server: /chat/completions turns on the shared session store.        *)
(***************************************************************************)
NoTurn == [ served |-> FALSE, req |-> 0, session_id |-> None, ctx |-> None,
            deps |-> None ]

\* no request in flight, nothing answered yet, no connection pool
NoResponse == [status |-> "none"]

Quiet ==
    /\ flights = << >>
    /\ response = NoResponse
    /\ requests = 0
    /\ pool = "None"

Init ==
    /\ session_contexts = << >>
    /\ heap = << >>
    /\ touched = << >>
    /\ evicted = {}
    /\ calls = 0
    /\ turn = NoTurn
    /\ arg = None
    /\ result = None
    /\ pc = "serving"
    /\ Quiet

\* History of the get_session_context calls, kept beside the program state:
\*   touched  the live keys by their last call, oldest first
\*   evicted  the keys the last call removed from the store
\*   calls    how many calls of Scenario the calls made so far are, in its
\*            order and with no other call among them; Off once they differ
Touch(seq, key, live) ==
    LET Keep(k) == k /= key /\ k \in live
    IN  SelectSeq(seq, Keep) \o << key >>

\* the calls of the LRU example: A, B, A again, then C
Scenario == << kAlice42, kUser42, kAlice42, kBob42x >>

Off == Len(Scenario) + 1

Follow(n, key) ==
    IF n < Len(Scenario) /\ key = Scenario[n + 1] THEN n + 1 ELSE Off

\* Identity of every request of the run, computed once
IdentityOf == [r \in DOMAIN ChatRequests |-> Identity(ChatRequests[r])]

\* the locals of the last turn
Id == IdentityOf[turn.req]

\* the effect of a turn with request r whose SessionStep is s
Serve(r, s) ==
    LET id == IdentityOf[r]
    IN  /\ session_contexts' = s.store
        /\ heap' = Collect(s.heap, Referenced(s.store))
        /\ touched' = IF Truthy(id.session_id)
                      THEN Touch(touched, id.session_id, Live(s.store))
                      ELSE touched
        /\ evicted' = Live(session_contexts) \ Live(s.store)
        /\ calls' = IF Truthy(id.session_id) THEN Follow(calls, id.session_id)
                    ELSE calls
        /\ turn' = [ served |-> TRUE, req |-> r, session_id |-> id.session_id,
                     ctx |-> s.ctx, deps |-> s.deps ]

\* time.time() is read only when a SessionContext is constructed
Creates(r) ==
    /\ Truthy(IdentityOf[r].session_id)
    /\ IdentityOf[r].session_id \notin Live(session_contexts)

\* one /chat/completions request, up to the await of the agent run
ChatCompletions ==
    /\ pc = "serving"
    /\ \E r \in DOMAIN ChatRequests :
         \E now \in IF Creates(r) THEN Times ELSE {0} :
            Serve(r, SessionStep(IdentityOf[r], session_contexts, heap, now,
                                 FreshUuid(session_contexts)))
    /\ UNCHANGED << arg, result, pc, flights, response, requests, pool >>

Next == ChatCompletions

Spec == Init /\ [][Next]_vars

(***************************************************************************)
(* extract_session_id applied to a request envelope.                       *)
(***************************************************************************)
InitSessionId ==
    /\ session_contexts = << >>
    /\ heap = << >>
    /\ touched = << >>
    /\ evicted = {}
    /\ calls = 0
    /\ turn = NoTurn
    /\ arg \in EnvelopeRequests
    /\ result = None
    /\ pc = "call"
    /\ Quiet

ExtractSessionId ==
    /\ pc = "call"
    /\ result' = extract_session_id(arg)
    /\ pc' = "returned"
    /\ UNCHANGED << session_contexts, heap, touched, evicted, calls, turn, arg,
                    flights, response, requests, pool >>

SpecSessionId == InitSessionId /\ [][ExtractSessionId]_vars

(***************************************************************************)
(* extract_user_from_session applied to a session key.                     *)
(***************************************************************************)
InitUserKey ==
    /\ session_contexts = << >>
    /\ heap = << >>
    /\ touched = << >>
    /\ evicted = {}
    /\ calls = 0
    /\ turn = NoTurn
    /\ arg \in SessionKeyInputs
    /\ result = None
    /\ pc = "call"
    /\ Quiet

ExtractUserFromSession ==
    /\ pc = "call"
    /\ result' = extract_user_from_session(arg)
    /\ pc' = "returned"
    /\ UNCHANGED << session_contexts, heap, touched, evicted, calls, turn, arg,
                    flights, response, requests, pool >>

SpecUserKey == InitUserKey /\ [][ExtractUserFromSession]_vars

(***************************************************************************)
(* extract_user_from_messages applied to a message list.                   *)
(***************************************************************************)
sysBlankName == <<"n","a","m","e",":","\n","u","s","e","r","_","i","d",":"," ","4","2">>
sysNameAtEnd == <<"n","a","m","e",":"," ">>
sysAnonymous == <<"n","a","m","e",":"," ","A","N","O","N","Y","M","O","U","S","\n","u","s","e","r","_","i","d",":"," ">>
sysZep       == <<"#","#"," ","W","H","A","T"," ","I"," ","R","E","M","E","M","B","E","R",":","\n","r","e","d","\n","#","#","x">>
sRed == <<"r","e","d">>
sUserId42 == <<"u","s","e","r","_","i","d",":"," ","4","2">>

SystemContents ==
    { sysBob, sysAlice, sysGuest, sysBlankName, sysNameAtEnd, sysAnonymous, sysZep, sHi }

MessageInputs ==
    UNION { [1..n -> {msgSystem(c) : c \in SystemContents} \cup {msgUser(sHi)}] :
            n \in 0..MaxMsgs }

InitMessages ==
    /\ session_contexts = << >>
    /\ heap = << >>
    /\ touched = << >>
    /\ evicted = {}
    /\ calls = 0
    /\ turn = NoTurn
    /\ arg \in MessageInputs
    /\ result = None
    /\ pc = "call"
    /\ Quiet

ExtractUserFromMessages ==
    /\ pc = "call"
    /\ result' = extract_user_from_messages(arg)
    /\ pc' = "returned"
    /\ UNCHANGED << session_contexts, heap, touched, evicted, calls, turn, arg,
                    flights, response, requests, pool >>

SpecMessages == InitMessages /\ [][ExtractUserFromMessages]_vars

(***************************************************************************)
(* The user message the two endpoints take from a message list.            *)
(***************************************************************************)
sFirst == <<"f","i","r","s","t">>
sImage == <<"i","m","g">>

ChatMessages == { msgUser(sHi), msgUser(sFirst), msgUser(<< >>), msgSystem(sHi),
                  [role |-> "assistant", content |-> sHi] }

CopilotContents ==
    { Str(sHi), Str(sFirst), Str(<< >>),
      List(<< Item("text", sHi) >>),
      List(<< Item("image", sImage), Item("text", sFirst), Item("text", sHi) >>),
      List(<< Item("image", sImage) >>),
      List(<< >>) }

CopilotMessages ==
    { [role |-> "user", content |-> c] : c \in CopilotContents }
       \cup { [role |-> "system", content |-> Str(sHi)] }

ChatMessageInputs ==
    UNION { { [endpoint |-> "/chat/completions", messages |-> m] :
                m \in [1..n -> ChatMessages] } : n \in 0..MaxMsgs }

CopilotMessageInputs ==
    UNION { { [endpoint |-> "/copilotkit", messages |-> m] :
                m \in [1..n -> CopilotMessages] } : n \in 0..MaxMsgs }

InitUserMessage ==
    /\ session_contexts = << >>
    /\ heap = << >>
    /\ touched = << >>
    /\ evicted = {}
    /\ calls = 0
    /\ turn = NoTurn
    /\ (arg \in ChatMessageInputs \/ arg \in CopilotMessageInputs)
    /\ result = None
    /\ pc = "call"
    /\ Quiet

ChatUserMessage ==
    /\ pc = "call"
    /\ arg.endpoint = "/chat/completions"
    /\ result' = UserMessage(arg.messages)
    /\ pc' = "returned"
    /\ UNCHANGED << session_contexts, heap, touched, evicted, calls, turn, arg,
                    flights, response, requests, pool >>

CopilotkitUserMessage ==
    /\ pc = "call"
    /\ arg.endpoint = "/copilotkit"
    /\ result' = CopilotUserMessage(arg.messages)
    /\ pc' = "returned"
    /\ UNCHANGED << session_contexts, heap, touched, evicted, calls, turn, arg,
                    flights, response, requests, pool >>

NextUserMessage == ChatUserMessage \/ CopilotkitUserMessage

SpecUserMessage == InitUserMessage /\ [][NextUserMessage]_vars

(***************************************************************************)
(* The server: the two endpoints, the agent runs in flight and the tools   *)
(* they call. A handler runs from the request to its await of the agent    *)
(* run; the run is in flight until the agent answers or raises; while it   *)
(* is in flight the agent calls tools, each of which stops at its await.   *)
(* Handlers and tools of different requests interleave at these points.    *)
(***************************************************************************)
sBadJson   == <<"E","x","p","e","c","t","i","n","g"," ","v","a","l","u","e">>
sModelDown == <<"m","o","d","e","l"," ","u","n","a","v","a","i","l","a","b","l","e">>
sCheers    == <<"C","h","e","e","r","s">>
sStop      == <<"s","t","o","p">>
sData      == <<"d","a","t","a",":"," ">>
sDone      == <<"[","D","O","N","E","]">>

\* the pair that "return {"error": str(e)}, 500" returns
ErrorReturn(message) == << [error |-> message], 500 >>

\* a handler without its except clause: the exception leaves it
ExceptException_Reraise(outcome) ==
    IF outcome.raised
    THEN [status |-> "raised", value |-> outcome.message]
    ELSE [status |-> "returned", value |-> outcome.value]

\* try: ... except Exception as e: return {"error": str(e)}, 500
\* outcome is what the try block did: it raised an exception with a message,
\* or it returned a value
ExceptException(outcome) ==
    IF outcome.raised
    THEN [status |-> "returned", value |-> ErrorReturn(outcome.message)]
    ELSE [status |-> "returned", value |-> outcome.value]

Raised(message) == [raised |-> TRUE, message |-> message, value |-> << >>]
Returned(value) == [raised |-> FALSE, message |-> None, value |-> value]

\* {} as a JSON object
EmptyObject == [f \in {} |-> None]

\* a chat.completion.chunk; its id and its creation time are left out
Chunk(delta, finish_reason) ==
    [ object  |-> "chat.completion.chunk",
      model   |-> "dionysus-1.0",
      choices |-> << [index |-> 0, delta |-> delta, finish_reason |-> finish_reason] >> ]

\* one server-sent event: f"data: {payload}\n\n"; payload is json.dumps of a
\* chunk or a literal text
Event(json, chunk, text) ==
    [ line |-> sData, json |-> json, chunk |-> chunk, text |-> text, end |-> << NL, NL >> ]

\* stream_response that sends the answer and the end mark without the stop chunk
stream_response_NoStop(response_text) ==
    << Event(TRUE, Chunk([role |-> "assistant", content |-> response_text], None), << >>),
       Event(FALSE, EmptyObject, sDone) >>

\* stream_response(): the events the generator yields, in order
stream_response(response_text) ==
    << Event(TRUE, Chunk([role |-> "assistant", content |-> response_text], None), << >>),
       Event(TRUE, Chunk(EmptyObject, sStop), << >>),
       Event(FALSE, EmptyObject, sDone) >>

\* the chat.completion object of the non-streaming answer; id and creation
\* time are left out
Completion(response_text) ==
    [ object  |-> "chat.completion",
      model   |-> "dionysus-1.0",
      choices |-> << [ index |-> 0,
                       message |-> [role |-> "assistant", content |-> response_text],
                       finish_reason |-> sStop ] >>,
      usage   |-> [prompt_tokens |-> 0, completion_tokens |-> 0, total_tokens |-> 0] ]

\* the answer of /copilotkit
CopilotReply(response_text) ==
    [ messages |-> << [role |-> "assistant", content |-> response_text] >> ]

\* stream = body.get("stream", True) ... if stream:
StreamOn(stream) == stream \in {"absent", "true"}

\* what the handler returns once the agent has answered response_text
Answer(endpoint, stream, response_text) ==
    IF endpoint = "/copilotkit" THEN CopilotReply(response_text)
    ELSE IF StreamOn(stream) THEN stream_response(response_text)
    ELSE Completion(response_text)

\* the requests of a run: the endpoint, whether the body parses as JSON, the
\* stream field of the body, and the envelope
ServerRequest(endpoint, json_ok, stream, req) ==
    [endpoint |-> endpoint, json_ok |-> json_ok, stream |-> stream, req |-> req]

copilotHi == << [role |-> "system", content |-> Str(sysAlice)],
                [role |-> "user", content |-> List(<< Item("text", sHi) >>)] >>

ServerRequests ==
    << ServerRequest("/chat/completions", TRUE, "absent", Request(kAlice42, None, plain)),
       ServerRequest("/chat/completions", TRUE, "false", Request(None, kUser42, withBob)),
       ServerRequest("/chat/completions", TRUE, "true", Request(None, None, plain)),
       ServerRequest("/chat/completions", FALSE, "absent", Request(kAlice42, None, << >>)),
       ServerRequest("/copilotkit", TRUE, "absent", Request(kAlice42, None, copilotHi)),
       ServerRequest("/copilotkit", FALSE, "absent", Request(None, None, << >>)),
       ServerRequest("/chat/completions", TRUE, "false", Request(kAlice42, None, withBob)),
       ServerRequest("/chat/completions", TRUE, "false", Request(kBob42x, None, plain)),
       ServerRequest("/chat/completions", TRUE, "true", Request(kAliceBar, None, plain)) >>

\* the locals of /chat/completions for every request it can parse
ServerIdentityOf ==
    [ r \in { q \in DOMAIN ServerRequests :
                 ServerRequests[q].endpoint = "/chat/completions" /\ ServerRequests[q].json_ok }
        |-> Identity(ServerRequests[r].req) ]

\* what the agent may answer
AgentAnswers == { sCheers }

\* An agent run in flight: the session id of its deps, its endpoint and the
\* stream field of its request; whether it has called its tool (a run of the
\* model calls one tool at most); and, while
\* a tool of it is stopped at its await, the tool, its arguments and the
\* session record it holds. lost tells that the key of the record held was
\* evicted from the store after the tool read it.
NoObj == [key |-> None, gen |-> 0]

Flight(sid, endpoint, stream) ==
    [ sid |-> sid, endpoint |-> endpoint, stream |-> stream, called |-> FALSE,
      tool |-> "none", args |-> NoArgs, held |-> NoObj, lost |-> FALSE ]

\* the session records the stopped tools hold
Held(fl) == { fl[i].held : i \in { j \in DOMAIN fl : fl[j].tool /= "none" } }

\* the flights once the keys of gone have left the store
MarkLost(fl, gone) ==
    [ j \in DOMAIN fl |->
        [fl[j] EXCEPT !.lost = @ \/ (fl[j].tool /= "none" /\ fl[j].sid \in gone)] ]

\* the sequence without its i-th element
Remove(seq, i) == SubSeq(seq, 1, i - 1) \o SubSeq(seq, i + 1, Len(seq))

\* time.time() of the server: the clock ticks with every request received
Now == requests + 1

\* /chat/completions and /copilotkit: request.json() raises on a body that is
\* not JSON and the except clause answers
Reject(r) ==
    /\ ~ServerRequests[r].json_ok
    /\ response' = [ endpoint |-> ServerRequests[r].endpoint,
                     stream |-> ServerRequests[r].stream,
                     text |-> None, raised |-> sBadJson ]
                      @@ ExceptException(Raised(sBadJson))
    /\ turn' = [ served |-> TRUE, req |-> r, session_id |-> None, ctx |-> None,
                 deps |-> None ]
    /\ requests' = requests + 1
    /\ UNCHANGED << session_contexts, heap, touched, evicted, calls, flights >>

\* /chat/completions from the parsed body to the await of the agent run
Accept(r) ==
    LET id == ServerIdentityOf[r]
    IN  /\ ServerRequests[r].json_ok
        /\ LET s == SessionStep(id, session_contexts, heap, Now, Uuid(requests + 1))
               gone == Live(session_contexts) \ Live(s.store)
               fl == Append(MarkLost(flights, gone),
                            Flight(s.deps.session_id, "/chat/completions",
                                   ServerRequests[r].stream))
           IN  /\ session_contexts' = s.store
               /\ heap' = Collect(s.heap, Referenced(s.store) \cup Held(fl))
               /\ flights' = fl
               /\ touched' = IF Truthy(id.session_id)
                             THEN Touch(touched, id.session_id, Live(s.store))
                             ELSE touched
               /\ evicted' = gone
               /\ calls' = IF Truthy(id.session_id) THEN Follow(calls, id.session_id)
                           ELSE calls
               /\ turn' = [ served |-> TRUE, req |-> r, session_id |-> id.session_id,
                            ctx |-> s.ctx, deps |-> s.deps ]
        /\ requests' = requests + 1
        /\ UNCHANGED response

\* a request of those in rs arrives at /chat/completions, unless max have arrived
ChatBegin(rs, max) ==
    /\ pc = "serving"
    /\ requests < max
    /\ \E r \in rs :
          /\ ServerRequests[r].endpoint = "/chat/completions"
          /\ (Accept(r) \/ Reject(r))
    /\ UNCHANGED << arg, result, pc, pool >>

ChatCompletionsBegin == ChatBegin(DOMAIN ServerRequests, MaxRequests)

\* /copilotkit from the parsed body to the await of the agent run: the
\* session id is a new uuid4 and the store is not read
CopilotkitAccept(r) ==
    LET session_id == Uuid(requests + 1)
    IN  /\ ServerRequests[r].json_ok
        /\ flights' = Append(flights, Flight(session_id, "/copilotkit",
                                             ServerRequests[r].stream))
        /\ turn' = [ served |-> TRUE, req |-> r, session_id |-> session_id,
                     ctx |-> None,
                     deps |-> [session_id |-> session_id, user_id |-> None] ]
        /\ requests' = requests + 1
        /\ UNCHANGED << session_contexts, heap, touched, evicted, calls, response >>

\* a request of those in rs arrives at /copilotkit, unless max have arrived
CopilotBegin(rs, max) ==
    /\ pc = "serving"
    /\ requests < max
    /\ \E r \in rs :
          /\ ServerRequests[r].endpoint = "/copilotkit"
          /\ (CopilotkitAccept(r) \/ Reject(r))
    /\ UNCHANGED << arg, result, pc, pool >>

CopilotkitBegin == CopilotBegin(DOMAIN ServerRequests, MaxRequests)

\* a tool of flight i from its call to its await:
\* session_ctx = get_session_context(ctx.deps.session_id), then what the tool
\* writes before it awaits
CallTool(i, tool, args) ==
    LET f == flights[i]
    IN  /\ f.tool = "none"
        /\ ~f.called
        /\ LET got == get_session_context(session_contexts, heap, f.sid, Now)
               gone == Live(session_contexts) \ Live(got.store)
               fl == [ MarkLost(flights, gone) EXCEPT ![i] =
                         [ f EXCEPT !.tool = tool, !.args = args, !.held = got.ctx,
                                    !.called = TRUE, !.lost = FALSE ] ]
           IN  /\ session_contexts' = got.store
               /\ flights' = fl
               /\ heap' = Collect([got.heap EXCEPT ![got.ctx] = BeforeAwait(tool, @, args)],
                                  Referenced(got.store) \cup Held(fl))
               /\ touched' = Touch(touched, f.sid, Live(got.store))
               /\ evicted' = gone
               /\ calls' = Follow(calls, f.sid)
        /\ UNCHANGED << turn, response, requests, pool >>

\* a tool of flight i from the answer of the data access to its return
ResumeTool(i, wines) ==
    LET f == flights[i]
        fl == [ flights EXCEPT ![i] =
                  [ f EXCEPT !.tool = "none", !.args = NoArgs, !.held = NoObj,
                             !.lost = FALSE ] ]
    IN  /\ f.tool /= "none"
        /\ flights' = fl
        /\ heap' = Collect([heap EXCEPT ![f.held] = AfterAwait(f.tool, @, f.args, wines)],
                           Referenced(session_contexts) \cup Held(fl))
        /\ UNCHANGED << session_contexts, touched, evicted, calls, turn, response,
                        requests, pool >>

\* the arguments the agent of the run gives its tools
regionArgs == [NoArgs EXCEPT !.region = sBurgundy, !.max_price = s20]
slugArgs   == [NoArgs EXCEPT !.wine_slug = sMargaux]
priceArgs  == [NoArgs EXCEPT !.min_price = s10, !.max_price = s20]
foodArgs   == [NoArgs EXCEPT !.food = sBeef]

SearchWinesTool ==
    /\ pc = "serving"
    /\ \E i \in DOMAIN flights : CallTool(i, "search_wines_tool", regionArgs)
    /\ UNCHANGED << arg, result, pc >>

GetWineDetailsTool ==
    /\ pc = "serving"
    /\ \E i \in DOMAIN flights : CallTool(i, "get_wine_details_tool", slugArgs)
    /\ UNCHANGED << arg, result, pc >>

GetWinesByRegionTool ==
    /\ pc = "serving"
    /\ \E i \in DOMAIN flights : CallTool(i, "get_wines_by_region_tool", regionArgs)
    /\ UNCHANGED << arg, result, pc >>

GetWinesByPriceTool ==
    /\ pc = "serving"
    /\ \E i \in DOMAIN flights : CallTool(i, "get_wines_by_price_tool", priceArgs)
    /\ UNCHANGED << arg, result, pc >>

GetFoodPairingTool ==
    /\ pc = "serving"
    /\ \E i \in DOMAIN flights : CallTool(i, "get_food_pairing_tool", foodArgs)
    /\ UNCHANGED << arg, result, pc >>

ToolResume ==
    /\ pc = "serving"
    /\ \E i \in DOMAIN flights : \E wines \in WineRows : ResumeTool(i, wines)
    /\ UNCHANGED << arg, result, pc >>

\* the agent run of flight i answers and the handler returns
AgentReturn ==
    /\ pc = "serving"
    /\ \E i \in DOMAIN flights : \E response_text \in AgentAnswers :
          LET f == flights[i]
          IN  /\ f.tool = "none"
              /\ response' = [ endpoint |-> f.endpoint, stream |-> f.stream,
                               text |-> response_text, raised |-> None ]
                                @@ ExceptException(Returned(Answer(f.endpoint, f.stream,
                                                                   response_text)))
              /\ flights' = Remove(flights, i)
    /\ UNCHANGED << session_contexts, heap, touched, evicted, calls, turn, arg, result,
                    pc, requests, pool >>

\* the agent run of flight i raises and the except clause answers
AgentRaise ==
    /\ pc = "serving"
    /\ \E i \in DOMAIN flights :
          LET f == flights[i]
          IN  /\ f.tool = "none"
              /\ response' = [ endpoint |-> f.endpoint, stream |-> f.stream,
                               text |-> None, raised |-> sModelDown ]
                                @@ ExceptException(Raised(sModelDown))
              /\ flights' = Remove(flights, i)
    /\ UNCHANGED << session_contexts, heap, touched, evicted, calls, turn, arg, result,
                    pc, requests, pool >>

\* The endpoints without the tools: every request of ServerRequests, and
\* agent runs that answer or raise.
NextServer ==
    \/ ChatCompletionsBegin
    \/ CopilotkitBegin
    \/ AgentReturn
    \/ AgentRaise

SpecServer == Init /\ [][NextServer]_vars

\* The agent runs with their tools: the requests of AgentRequests, whose
\* bodies parse, and agent runs that call a tool and answer.
AgentRequests == { r \in DOMAIN ServerRequests :
                     ServerRequests[r].json_ok /\ ServerRequests[r].stream = "absent" }

ChatCompletionsRun == ChatBegin(AgentRequests, MaxRuns)

CopilotkitRun == CopilotBegin(AgentRequests, MaxRuns)

NextAgent ==
    \/ ChatCompletionsRun
    \/ CopilotkitRun
    \/ SearchWinesTool
    \/ GetWineDetailsTool
    \/ GetWinesByRegionTool
    \/ GetWinesByPriceTool
    \/ GetFoodPairingTool
    \/ ToolResume
    \/ AgentReturn

SpecAgent == Init /\ [][NextAgent]_vars

(***************************************************************************)
(* The server under load: /chat/completions requests of more sessions than *)
(* the store holds, whose agent runs call search_wines_tool and            *)
(* get_wine_details_tool. result tells of the tool that returned last: its *)
(* session id, its arguments and what the data access answered it.         *)
(***************************************************************************)
\* The requests of the run, in the order they arrive: the first of session
\* Alice|42, then one of each of MAX_SESSIONS other sessions, then another of
\* Alice|42 whose system message names Bob.
OtherSessions == << 2, 8, 9 >>

LoadScript == << 1 >> \o SubSeq(OtherSessions, 1, MAX_SESSIONS) \o << 7 >>

NoReturn == [sid |-> None, tool |-> "none", args |-> NoArgs, wines |-> << >>]

InitLoad ==
    /\ session_contexts = << >>
    /\ heap = << >>
    /\ touched = << >>
    /\ evicted = {}
    /\ calls = 0
    /\ turn = NoTurn
    /\ arg = None
    /\ result = NoReturn
    /\ pc = "serving"
    /\ Quiet

LoadArrive ==
    /\ requests < Len(LoadScript)
    /\ ChatBegin({LoadScript[requests + 1]}, Len(LoadScript))

\* the runs that have called their tool
Tooled == { i \in DOMAIN flights : flights[i].called }

LoadSearchWines ==
    /\ Cardinality(Tooled) < MaxRuns
    /\ SearchWinesTool

LoadGetWineDetails ==
    /\ Cardinality(Tooled) < MaxRuns
    /\ GetWineDetailsTool

\* a tool of a run goes on from its await to its return
LoadResume ==
    /\ pc = "serving"
    /\ \E i \in DOMAIN flights : \E wines \in WineRows :
          /\ ResumeTool(i, wines)
          /\ result' = [ sid |-> flights[i].sid, tool |-> flights[i].tool,
                         args |-> flights[i].args, wines |-> wines ]
    /\ UNCHANGED << arg, pc >>

NextLoad ==
    \/ LoadArrive
    \/ LoadSearchWines
    \/ LoadGetWineDetails
    \/ LoadResume

SpecLoad == InitLoad /\ [][NextLoad]_vars

(***************************************************************************)
(* search_wines_tool called once, with any combination of its filters, by  *)
(* an agent run of session Alice|42.                                       *)
(***************************************************************************)
sFrance == <<"F","r","a","n","c","e">>
sPinot  == <<"P","i","n","o","t">>

Optional(v) == { None, v }

SearchArgs ==
    { [NoArgs EXCEPT !.query = q, !.region = r, !.country = c, !.producer = p,
                     !.grape = g, !.min_price = lo, !.max_price = hi, !.vintage = y] :
        q \in Optional(sMargaux), r \in Optional(sBurgundy), c \in Optional(sFrance),
        p \in Optional(sLatour), g \in Optional(sPinot),
        lo \in { None, << "0" >>, s10 }, hi \in Optional(s20), y \in Optional(s2015) }

\* the handler of the request has run; its agent run is in flight
InitSearch ==
    /\ session_contexts = << [key |-> kAlice42, ctx |-> [key |-> kAlice42, gen |-> 0]] >>
    /\ heap = [o \in {[key |-> kAlice42, gen |-> 0]} |->
                 CaptureName(SessionContext(1), sAlice)]
    /\ touched = << kAlice42 >>
    /\ evicted = {}
    /\ calls = 1
    /\ turn = [ served |-> TRUE, req |-> 1, session_id |-> kAlice42,
                ctx |-> [key |-> kAlice42, gen |-> 0],
                deps |-> [session_id |-> kAlice42, user_id |-> <<"4","2">>] ]
    /\ arg \in SearchArgs
    /\ result = None
    /\ pc = "call"
    /\ flights = << Flight(kAlice42, "/chat/completions", "absent") >>
    /\ response = NoResponse
    /\ requests = 1
    /\ pool = "None"

\* search_wines_tool up to "wines = await search_wines(...)"
SearchCall ==
    /\ pc = "call"
    /\ CallTool(1, "search_wines_tool", arg)
    /\ pc' = "await"
    /\ UNCHANGED << arg, result >>

\* search_wines_tool from the answer of search_wines to its return
SearchReturn ==
    /\ pc = "await"
    /\ \E wines \in WineRows :
          /\ ResumeTool(1, wines)
          /\ result' = [ wines |-> wines,
                         return |-> search_wines_tool_resume(heap[flights[1].held],
                                                             flights[1].args, wines).return ]
    /\ pc' = "returned"
    /\ UNCHANGED arg

NextSearch == SearchCall \/ SearchReturn

SpecSearch == InitSearch /\ [][NextSearch]_vars

(***************************************************************************)
(* One tool call of an agent run of session Alice|42: search_wines_tool,   *)
(* get_wines_by_region_tool, get_wines_by_price_tool or                    *)
(* get_food_pairing_tool, with any arguments, on a record that earlier     *)
(* runs of the session may have written to. arg holds the tool, its        *)
(* arguments and the record as it was before the call.                     *)
(***************************************************************************)
sFish == <<"f","i","s","h">>
s5    == <<"5">>
s50   == <<"5","0">>

ToolCalls ==
    { [tool |-> "search_wines_tool", args |-> a] : a \in SearchArgs }
    \cup { [tool |-> "get_wines_by_region_tool", args |-> [NoArgs EXCEPT !.region = r]] :
             r \in { sBurgundy, sEmpty } }
    \cup { [tool |-> "get_wines_by_price_tool",
            args |-> [NoArgs EXCEPT !.min_price = lo, !.max_price = hi]] :
             lo \in { << "0" >>, s10 }, hi \in { << "0" >>, s20 } }
    \cup { [tool |-> "get_food_pairing_tool", args |-> [NoArgs EXCEPT !.food = f]] :
             f \in { sBeef, sEmpty } }

\* the record of the session as the handler made it, and as tools of earlier
\* runs may have left it
RecordsBefore ==
    { CaptureName(SessionContext(1), sAlice),
      [CaptureName(SessionContext(1), sAlice) EXCEPT
          !.preferred_region = sMargaux, !.budget_min = s5, !.budget_max = s50,
          !.current_wine = sLatour, !.food_pairing = sFish] }

InitTools ==
    /\ session_contexts = << [key |-> kAlice42, ctx |-> [key |-> kAlice42, gen |-> 0]] >>
    /\ \E c \in RecordsBefore : \E call \in ToolCalls :
          /\ heap = [o \in {[key |-> kAlice42, gen |-> 0]} |-> c]
          /\ arg = [tool |-> call.tool, args |-> call.args, before |-> c]
    /\ touched = << kAlice42 >>
    /\ evicted = {}
    /\ calls = 1
    /\ turn = [ served |-> TRUE, req |-> 1, session_id |-> kAlice42,
                ctx |-> [key |-> kAlice42, gen |-> 0],
                deps |-> [session_id |-> kAlice42, user_id |-> <<"4","2">>] ]
    /\ result = [wines |-> << >>]
    /\ pc = "call"
    /\ flights = << Flight(kAlice42, "/chat/completions", "absent") >>
    /\ response = NoResponse
    /\ requests = 1
    /\ pool = "None"

\* the tool from its call to its await
AnyToolCall ==
    /\ pc = "call"
    /\ CallTool(1, arg.tool, arg.args)
    /\ pc' = "await"
    /\ UNCHANGED << arg, result >>

\* the tool from the answer of the data access to its return
AnyToolReturn ==
    /\ pc = "await"
    /\ \E wines \in WineRows :
          /\ ResumeTool(1, wines)
          /\ result' = [wines |-> wines]
    /\ pc' = "returned"
    /\ UNCHANGED arg

NextTools == AnyToolCall \/ AnyToolReturn

SpecTools == InitTools /\ [][NextTools]_vars

(***************************************************************************)
(* The data-access module: Database and its query functions. pool is       *)
(* Database._pool, "None" or the pool. A row is the text of its name and   *)
(* the answer of a query is a list of rows.                                *)
(***************************************************************************)
sNest == <<"N","e","s","t">>

\* the query functions by what they return: a list of rows, one row or
\* None, the id of the row written or None, True or False
ListFunctions ==
    { "get_all_schemes", "search_schemes", "get_schemes_by_type",
      "get_schemes_by_fee_range", "get_top_rated_schemes", "compare_scheme_fees",
      "get_scheme_funds", "get_funds_by_type", "get_funds_by_risk_level",
      "get_user_pension_selections" }
RowFunctions == { "get_scheme_by_name", "get_scheme_details", "get_user_profile",
                  "save_recommendation" }
BoolFunctions == { "add_user_pension_selection" }
QueryFunctions == ListFunctions \cup RowFunctions \cup BoolFunctions

\* where a call may fail: asyncpg.create_pool, pool.acquire, the first query
\* of the function, and the second query of get_scheme_by_name
Faults == { "none", "create_pool", "acquire", "query", "second_query" }

\* Database.get_pool(): the pool it leaves and whether it raised
get_pool(p, fault) ==
    IF p = "None"
    THEN IF fault = "create_pool"
         THEN [pool |-> "None", raised |-> TRUE]
         ELSE [pool |-> "Pool", raised |-> FALSE]
    ELSE [pool |-> p, raised |-> FALSE]

\* get_connection(): pool = await Database.get_pool(), then pool.acquire()
get_connection(p, fault) ==
    LET got == get_pool(p, fault)
    IN  IF got.raised THEN got
        ELSE [pool |-> got.pool, raised |-> fault = "acquire"]

\* the type of what fn returns
Kind(fn) ==
    IF fn \in ListFunctions THEN "list" ELSE IF fn \in RowFunctions THEN "row" ELSE "bool"

\* what the except clause of a query function returns: [], None or False,
\* written as a value [kind, list, row, ok] of which the field named by
\* kind is the one returned
Empty(fn) == [kind |-> Kind(fn), list |-> << >>, row |-> None, ok |-> FALSE]

\* the body of the try block of fn on a connection: what it returns, or that
\* it raised; answers are the rows the first and the second query give.
Body(fn, fault, answers) ==
    LET none == Empty(fn)
        First(rows) == IF rows /= << >> THEN rows[1] ELSE None
    IN  IF fault = "query" THEN [raised |-> TRUE, value |-> none]
        ELSE IF fn \in ListFunctions
             THEN [raised |-> FALSE, value |-> [none EXCEPT !.list = answers[1]]]
        ELSE IF fn \in BoolFunctions
             THEN [raised |-> FALSE, value |-> [none EXCEPT !.ok = TRUE]]
        ELSE IF fn = "get_scheme_by_name"
             THEN IF answers[1] /= << >>
                  THEN [raised |-> FALSE, value |-> [none EXCEPT !.row = answers[1][1]]]
                  ELSE IF fault = "second_query" THEN [raised |-> TRUE, value |-> none]
                  ELSE [raised |-> FALSE, value |-> [none EXCEPT !.row = First(answers[2])]]
        ELSE [raised |-> FALSE, value |-> [none EXCEPT !.row = First(answers[1])]]

\* a query function whose try block begins after the connection is taken
query_function_LateTry(fn, p, fault, answers) ==
    LET conn == get_connection(p, fault)
        body == Body(fn, fault, answers)
    IN  IF conn.raised
        THEN [pool |-> conn.pool, status |-> "raised", raised |-> TRUE, value |-> Empty(fn)]
        ELSE [pool |-> conn.pool, status |-> "returned", raised |-> body.raised,
              value |-> IF body.raised THEN Empty(fn) ELSE body.value]

\* a query function: try: async with get_connection() as conn: ... except
\* Exception: return the empty result
query_function(fn, p, fault, answers) ==
    LET conn == get_connection(p, fault)
        body == Body(fn, fault, answers)
    IN  IF conn.raised
        THEN [pool |-> conn.pool, status |-> "returned", raised |-> TRUE, value |-> Empty(fn)]
        ELSE [pool |-> conn.pool, status |-> "returned", raised |-> body.raised,
              value |-> IF body.raised THEN Empty(fn) ELSE body.value]

Rows == { << >>, << sNest >> }

InitDatabase ==
    /\ session_contexts = << >>
    /\ heap = << >>
    /\ touched = << >>
    /\ evicted = {}
    /\ calls = 0
    /\ turn = NoTurn
    /\ arg = None
    /\ result = None
    /\ pc = "idle"
    /\ Quiet

\* one call of a query function, from the call to its return
Query ==
    /\ \E fn \in QueryFunctions : \E fault \in Faults : \E first, second \in Rows :
          LET out == query_function(fn, pool, fault, << first, second >>)
          IN  /\ arg' = [fn |-> fn, fault |-> fault, answers |-> << first, second >>]
              /\ result' = [status |-> out.status, raised |-> out.raised, value |-> out.value]
              /\ pool' = out.pool
    /\ pc' = "called"
    /\ UNCHANGED << session_contexts, heap, touched, evicted, calls, turn, flights,
                    response, requests >>

\* Database.close()
Close ==
    /\ pool /= "None"
    /\ pool' = "None"
    /\ UNCHANGED << session_contexts, heap, touched, evicted, calls, turn, arg, result,
                    pc, flights, response, requests >>

NextDatabase == Query \/ Close

SpecDatabase == InitDatabase /\ [][NextDatabase]_vars

(***************************************************************************)
(* Database.get_pool called by several coroutines of one process. A call   *)
(* stops at "await asyncpg.create_pool(...)" and other coroutines run      *)
(* meanwhile; flights holds the calls, pool is Database._pool and calls    *)
(* counts the invocations of create_pool. Nothing of the program calls     *)
(* Database.close.                                                         *)
(***************************************************************************)
\* the pools asyncpg.create_pool makes, in the order of its invocations; a
\* call makes one pool at most, so there are as many callers
Pools == << "Pool", "Pool2", "Pool3" >>

\* a call of get_pool: where it is, the pool its create_pool is making and
\* the pool it returned
PoolCall == [at |-> "start", made |-> "None", got |-> "None"]

InitPool ==
    /\ session_contexts = << >>
    /\ heap = << >>
    /\ touched = << >>
    /\ evicted = {}
    /\ calls = 0
    /\ turn = NoTurn
    /\ arg = None
    /\ result = None
    /\ pc = "serving"
    /\ flights = [i \in DOMAIN Pools |-> PoolCall]
    /\ response = NoResponse
    /\ requests = 0
    /\ pool = "None"

\* get_pool up to its await: "if cls._pool is None:" and the invocation of
\* create_pool, or "return cls._pool" when there is a pool
GetPoolTest ==
    /\ \E i \in DOMAIN flights :
          /\ flights[i].at = "start"
          /\ IF pool = "None"
             THEN /\ flights' = [flights EXCEPT ![i] =
                                   [@ EXCEPT !.at = "create_pool", !.made = Pools[calls + 1]]]
                  /\ calls' = calls + 1
             ELSE /\ flights' = [flights EXCEPT ![i] =
                                   [@ EXCEPT !.at = "returned", !.got = pool]]
                  /\ calls' = calls
    /\ UNCHANGED << session_contexts, heap, touched, evicted, turn, arg, result, pc,
                    response, requests, pool >>

\* create_pool answers: "cls._pool = <the pool>" and "return cls._pool"
GetPoolAssign ==
    /\ \E i \in DOMAIN flights :
          /\ flights[i].at = "create_pool"
          /\ pool' = flights[i].made
          /\ flights' = [flights EXCEPT ![i] =
                           [@ EXCEPT !.at = "returned", !.got = flights[i].made]]
    /\ UNCHANGED << session_contexts, heap, touched, evicted, calls, turn, arg, result,
                    pc, response, requests >>

\* create_pool raises: the call of get_pool raises and _pool is not assigned
GetPoolRaise ==
    /\ \E i \in DOMAIN flights :
          /\ flights[i].at = "create_pool"
          /\ flights' = [flights EXCEPT ![i] = [@ EXCEPT !.at = "raised"]]
    /\ UNCHANGED << session_contexts, heap, touched, evicted, calls, turn, arg, result,
                    pc, response, requests, pool >>

NextPool == GetPoolTest \/ GetPoolAssign \/ GetPoolRaise

SpecPool == InitPool /\ [][NextPool]_vars

(***************************************************************************)
(* Properties of the session store (specification Spec).                   *)
(***************************************************************************)
\* C1: after any sequence of get_session_context calls the store holds at most
\* MAX_SESSIONS distinct keys, and every call returns a context: the object
\* the store holds for the requested key.
C1_CapacityBound ==
    /\ Len(session_contexts) <= MAX_SESSIONS
    /\ Cardinality(Live(session_contexts)) = Len(session_contexts)
    /\ (turn.served /\ Truthy(turn.session_id)) =>
          /\ turn.session_id \in Live(session_contexts)
          /\ turn.ctx = CtxOf(session_contexts, turn.session_id)
          /\ turn.ctx \in DOMAIN heap

\* a call for a new key found the store full and evicted
C1_Witness ==
    /\ Len(session_contexts) = MAX_SESSIONS
    /\ evicted /= {}
    /\ turn.session_id = session_contexts[Len(session_contexts)].key

\* C2: the key a get_session_context call removes is the live key whose most
\* recent get_session_context call (creation or lookup) is the oldest; with
\* capacity 2 the calls A, B, A, C evict B and leave A and C live.
C2_EvictsLeastRecentlyTouched ==
    [][ /\ \A k \in Live(session_contexts) \ Live(session_contexts') :
              k = Head(touched)
        /\ (MAX_SESSIONS = 2
              /\ calls' = Len(Scenario) /\ calls' /= calls)
           => /\ evicted' = {kUser42}
              /\ Live(session_contexts') = {kAlice42, kBob42x} ]_vars

\* the calls A, B, A, C were made and the last one evicted
C2_Witness ==
    /\ calls = Len(Scenario)
    /\ evicted = {kUser42}
    /\ Live(session_contexts) = {kAlice42, kBob42x}

\* C3: while a key stays live every call returns the same record, and a step
\* changes a live record only by the caller's write through the returned
\* record: no lookup copies a record or resets it to defaults.
C3_SameRecordWhileLive ==
    [][ /\ \A k \in Live(session_contexts) \cap Live(session_contexts') :
              LET o == CtxOf(session_contexts, k)
              IN  /\ CtxOf(session_contexts', k) = o
                  /\ \/ heap'[o] = heap[o]
                     \/ /\ k = turn'.session_id
                        /\ heap'[o] = [heap[o] EXCEPT !.user_name = IdentityOf[turn'.req].user_name]
        /\ Truthy(turn'.session_id) =>
              turn'.ctx = CtxOf(session_contexts', turn'.session_id) ]_vars

\* a name written in the first turn of a key is read back in its second turn,
\* which carries no name
C3_Witness ==
    /\ turn.served
    /\ turn.session_id = kUser42
    /\ Id.user_name = None
    /\ heap[turn.ctx].user_name = sBob

\* C4: once a live session's user_name is non-empty no turn changes it
C4_FirstNameWins ==
    [][ \A k \in Live(session_contexts) \cap Live(session_contexts') :
            Truthy(heap[CtxOf(session_contexts, k)].user_name) =>
               heap'[CtxOf(session_contexts', k)].user_name
                  = heap[CtxOf(session_contexts, k)].user_name ]_vars

\* a turn that resolves Bob for a session whose user_name is Alice
C4_Witness ==
    /\ turn.served
    /\ turn.session_id = kAlice42
    /\ Id.user_name = sBob
    /\ heap[turn.ctx].user_name = sAlice

\* C5: the composed user_name and user_id are each the system message's
\* value when the system message has one, and the session key's otherwise
C5_SystemMessageFirst ==
    turn.served =>
       /\ Id.user_name = IF Id.sys_name /= None THEN Id.sys_name
                              ELSE Id.key_name
       /\ Id.user_id = IF Id.sys_id /= None THEN Id.sys_id
                            ELSE Id.key_id

\* key name Bob and system name Alice compose to Alice, while the id, which
\* the system message lacks, comes from the key
C5_Witness ==
    /\ turn.served
    /\ Id.key_name = sBob
    /\ Id.sys_name = sAlice
    /\ Id.user_name = sAlice
    /\ Id.sys_id = None
    /\ Id.user_id = s42

(***************************************************************************)
(* Properties of extract_session_id (specification SpecSessionId).         *)
(***************************************************************************)
NonEmpty(values) == { v \in values : v /= None /\ v /= sEmpty }

\* the non-empty values of each carrier, in the order of the search
Carriers(req) ==
    << NonEmpty({req.query.custom_session_id, req.query.customSessionId}),
       NonEmpty({req.body.custom_session_id, req.body.customSessionId}),
       NonEmpty({req.body.session_settings.customSessionId,
                 req.body.session_settings.custom_session_id}),
       NonEmpty({req.body.metadata.customSessionId,
                 req.body.metadata.custom_session_id}),
       NonEmpty({req.headers.x_custom_session_id}),
       NonEmpty({req.headers.x_hume_custom_session_id}) >>

\* C6: extract_session_id returns a value of the first carrier, in the order
\* query, body, session_settings, metadata, x-custom-session-id,
\* x-hume-custom-session-id, that holds a non-empty value
C6_FirstCarrierWins ==
    pc = "returned" =>
       \A i \in DOMAIN Carriers(arg) :
          (Carriers(arg)[i] /= {} /\ \A j \in 1..(i - 1) : Carriers(arg)[j] = {})
             => result \in Carriers(arg)[i]

\* custom_session_id in the query string and in the body: the query's wins
C6_Witness ==
    /\ pc = "returned"
    /\ arg.query.custom_session_id = <<"q","1">>
    /\ arg.body.custom_session_id = <<"b","1">>
    /\ result = <<"q","1">>

\* C7: extract_session_id returns None exactly when no carrier holds a
\* non-empty string; an empty string does not stop the search
C7_AbsentIffNoCarrier ==
    pc = "returned" =>
       (result = None <=> \A i \in DOMAIN Carriers(arg) : Carriers(arg)[i] = {})

\* empty strings in the query and the first header, the value in the last header
C7_Witness ==
    /\ pc = "returned"
    /\ arg.query.custom_session_id = sEmpty
    /\ arg.headers.x_custom_session_id = sEmpty
    /\ \A i \in 1..5 :
          Carriers(arg)[i] = {}
    /\ result = <<"h","2">>

(***************************************************************************)
(* Properties of extract_user_from_session (specification SpecUserKey).    *)
(***************************************************************************)
\* the text before and after the first '|' of a key that has one
BeforeBar(key) == SubSeq(key, 1, FirstIndex(key, Bar) - 1)
AfterBar(key)  == SubSeq(key, FirstIndex(key, Bar) + 1, Len(key))
HasBar(key)    == key /= None /\ Contains(key, Bar)

\* C8: (None, None) for an absent key or a key without '|'; with a '|' the
\* name is None when the part before it is empty or 'user' in any letter case
\* and is that part otherwise
C8_PlaceholderName ==
    pc = "returned" =>
       /\ ~HasBar(arg) => result = << None, None >>
       /\ HasBar(arg) =>
             result[1] = IF BeforeBar(arg) = sEmpty \/ Lower(BeforeBar(arg)) = sUser
                         THEN None ELSE BeforeBar(arg)
       /\ arg = sUser \o << Bar >> \o s42 => result = << None, s42 >>
       /\ arg = sAlice \o << Bar >> \o s42 => result = << sAlice, s42 >>
       /\ arg = sNoSeparator => result = << None, None >>

\* 'USER|42' gives no name and the id 42
C8_Witness ==
    /\ pc = "returned"
    /\ arg = sUSER \o << Bar >> \o s42
    /\ result = << None, s42 >>

\* C9: the user id is the whole text after the first '|' of the key
C9_IdIsTextAfterFirstBar ==
    (pc = "returned" /\ HasBar(arg) /\ AfterBar(arg) /= sEmpty) =>
       result[2] = AfterBar(arg)

\* C10: the user id is None when nothing follows the '|'
C10_NoIdIsNone ==
    (pc = "returned" /\ HasBar(arg) /\ AfterBar(arg) = sEmpty) =>
       result[2] = None


(***************************************************************************)
(* Properties of extract_user_from_messages (specification SpecMessages).  *)
(***************************************************************************)
\* the positions of the system messages of a list
SystemAt(messages) == {i \in DOMAIN messages : messages[i].role = "system"}

\* the list without the system messages that follow its first one
WithoutLaterSystem(messages) ==
    LET Kept(i) == i \notin SystemAt(messages) \/ \A j \in SystemAt(messages) : i <= j
        RECURSIVE From(_)
        From(i) == IF i > Len(messages) THEN << >>
                   ELSE IF Kept(i) THEN << messages[i] >> \o From(i + 1)
                   ELSE From(i + 1)
    IN  From(1)

\* the content of the first system message of a list that has one
FirstSystemContent(messages) ==
    messages[CHOOSE i \in SystemAt(messages) : \A j \in SystemAt(messages) : i <= j].content

\* C11: extract_user_from_messages takes the name, the user id and the memory
\* context from the first system message alone: what it returns for a list is
\* what it returns for the list without the system messages after the first,
\* also when the first system message yields no field.
C11_FirstSystemMessageOnly ==
    pc = "returned" =>
        /\ result = extract_user_from_messages(WithoutLaterSystem(arg))
        /\ Cardinality(SystemAt(WithoutLaterSystem(arg))) <= 1
        /\ SystemAt(arg) /= {} =>
               FirstSystemContent(WithoutLaterSystem(arg)) = FirstSystemContent(arg)
        /\ \A i \in DOMAIN arg :
               (/\ arg[i] = msgSystem(sHi)
                /\ \A j \in 1..(i - 1) : arg[j].role /= "system")
               => result = << None, None, None >>

\* a first system message without any field, followed by one that carries a
\* name and an id, gave nothing; and a memory section was read
C11_Witness ==
    /\ pc = "returned"
    /\ \/ arg = << msgSystem(sHi), msgSystem(sysBob) >> /\ result = << None, None, None >>
       \/ arg = << msgSystem(sysZep), msgSystem(sysBob) >> /\ result = << None, None, sRed >>

\* the text on the line of the first label of content, from the label to the
\* end of that line, without the whitespace around it (None: no label)
LineValue(content, label) ==
    IF \E i \in DOMAIN content : LabelAt(content, i, label)
    THEN LET i == CHOOSE k \in DOMAIN content :
                      LabelAt(content, k, label) /\ \A j \in 1..(k - 1) : ~LabelAt(content, j, label)
             e == i + Len(label)
         IN  Strip(SubSeq(content, e, LineEnd(content, e)))
    ELSE None

\* C12: extract_user_from_messages returns no name when the value on the
\* name: line is empty, guest or anonymous in any letter case, and no id when
\* the value on the user_id: line is empty or anonymous in any letter case; a
\* name: label with only whitespace up to the end of its line yields no name,
\* whatever the next line holds.
C12_BlankOrPlaceholderIsAbsent ==
    (pc = "returned" /\ SystemAt(arg) /= {}) =>
        LET content == FirstSystemContent(arg)
            name    == LineValue(content, lblName)
            id      == LineValue(content, lblUserId)
        IN  /\ (name /= None /\ Lower(name) \in {<< >>, sGuest, sAnonymous}) => result[1] = None
            /\ (id /= None /\ Lower(id) \in {<< >>, sAnonymous}) => result[2] = None


(***************************************************************************)
(* Properties of the user message (specification SpecUserMessage).         *)
(***************************************************************************)
\* the messages of a list that have role "user", in their order
UserMessages(messages) ==
    LET IsUser(m) == m.role = "user" IN SelectSeq(messages, IsUser)

\* the text a message content carries: the string itself, or for a list of
\* items the text of its first text item
ContentText(endpoint, content) ==
    IF endpoint = "/chat/completions" THEN content
    ELSE IF ~content.list THEN content.text
    ELSE LET texts == SelectSeq(content.items, LAMBDA it : it.type = "text")
         IN  IF texts = << >> THEN << >> ELSE texts[1].text

\* C13: both endpoints use as the user message the content of the last message
\* with role "user", and the fixed greeting "Hello!" when there is no user
\* message or that last one is empty; earlier user messages are never used.
C13_LastUserMessageOrHello ==
    pc = "returned" =>
        LET users == UserMessages(arg.messages)
            last  == IF users = << >> THEN << >>
                     ELSE ContentText(arg.endpoint, users[Len(users)].content)
        IN  result = IF last = << >> THEN sHello ELSE last

\* each endpoint took the last of two user messages, and each answered the
\* greeting although an earlier user message had text
C13_Witness ==
    /\ pc = "returned"
    /\ \/ arg = [endpoint |-> "/chat/completions", messages |-> << msgUser(sFirst), msgUser(sHi) >>]
          /\ result = sHi
       \/ arg = [endpoint |-> "/chat/completions", messages |-> << msgUser(sFirst), msgUser(<< >>) >>]
          /\ result = sHello
       \/ /\ arg.endpoint = "/copilotkit"
          /\ Len(arg.messages) > 1
          /\ arg.messages[1] = [role |-> "user", content |-> Str(sFirst)]
          /\ arg.messages[2] = [role |-> "user", content |-> List(<< Item("image", sImage) >>)]
          /\ result = sHello

(***************************************************************************)
(* Properties of the endpoints (specification SpecServer).                 *)
(***************************************************************************)
\* C14: an exception raised while a request of /chat/completions or
\* /copilotkit is handled (the body does not parse, the agent run fails) is
\* caught in the handler and becomes the answer {"error": <message>}; no
\* exception leaves the handler and the server goes on serving requests.
C14_ExceptionsBecomeErrorAnswers ==
    response.status /= "none" =>
        /\ response.status = "returned"
        /\ response.raised /= None =>
              /\ Len(response.value) = 2
              /\ response.value[1] = [error |-> response.raised]
              /\ response.value[2] = 500
        /\ pc = "serving"
        /\ requests < MaxRequests => ENABLED (ChatCompletionsBegin \/ CopilotkitBegin)

\* a failed agent run of /copilotkit and an unparsable body of
\* /chat/completions were answered with the error
C14_Witness ==
    /\ response.status = "returned"
    /\ \/ response.endpoint = "/copilotkit" /\ response.raised = sModelDown
       \/ response.endpoint = "/chat/completions" /\ response.raised = sBadJson
    /\ response.value = << [error |-> response.raised], 500 >>
    /\ requests < MaxRequests

\* the delta contents of the JSON chunks of a stream, one after the other
RECURSIVE DeltaContents(_)
DeltaContents(events) ==
    IF events = << >> THEN << >>
    ELSE (IF Head(events).json /\ "content" \in DOMAIN Head(events).chunk.choices[1].delta
          THEN Head(events).chunk.choices[1].delta.content
          ELSE << >>) \o DeltaContents(Tail(events))

\* C15: when stream is true or absent the answer of /chat/completions is a
\* stream of exactly three events in this order: a JSON chunk whose delta
\* carries the whole answer with finish_reason null, a JSON chunk with an
\* empty delta and finish_reason "stop", and the literal data: [DONE]; the
\* delta contents put together are the text the non-streaming answer carries
\* in message.content.
C15_StreamIsThreeEvents ==
    (/\ response.status = "returned"
     /\ response.endpoint = "/chat/completions"
     /\ response.raised = None
     /\ response.stream \in {"true", "absent"}) =>
        LET events == response.value
        IN  /\ Len(events) = 3
            /\ \A i \in 1..3 : events[i].line = sData /\ events[i].end = << NL, NL >>
            /\ events[1].json
            /\ events[1].chunk.choices[1].delta =
                  [role |-> "assistant", content |-> response.text]
            /\ events[1].chunk.choices[1].finish_reason = None
            /\ events[2].json
            /\ DOMAIN events[2].chunk.choices[1].delta = {}
            /\ events[2].chunk.choices[1].finish_reason = sStop
            /\ ~events[3].json
            /\ events[3].text = sDone
            /\ DeltaContents(events) =
                  Completion(response.text).choices[1].message.content

\* a request without a stream field was answered with the three events
C15_Witness ==
    /\ response.status = "returned"
    /\ response.endpoint = "/chat/completions"
    /\ response.stream = "absent"
    /\ response.text = sCheers
    /\ Len(response.value) = 3
    /\ DeltaContents(response.value) = sCheers

\* the step is a handler that parsed its request
Began == requests' = requests + 1 /\ ServerRequests[turn'.req].json_ok

\* the session key and the name a request carries; for the name a list
\* content counts as the text of its first text item
CarriedKeys == [r \in DOMAIN ServerRequests |-> extract_session_id(ServerRequests[r].req)]

CarriedKey(r) == CarriedKeys[r]

CarriedNames ==
    [ r \in DOMAIN ServerRequests |->
        LET messages == ServerRequests[r].req.body.messages
            flat == [ i \in DOMAIN messages |->
                        [ role |-> messages[i].role,
                          content |-> IF ServerRequests[r].endpoint = "/chat/completions"
                                      THEN messages[i].content
                                      ELSE IF messages[i].content.list
                                           THEN FirstTextItem(messages[i].content.items)
                                           ELSE messages[i].content.text ] ]
        IN  Prefer(extract_user_from_messages(flat)[1],
                   extract_user_from_session(CarriedKeys[r])[1]) ]

CarriedName(r) == CarriedNames[r]

\* the handler used the store for the key and the name of request r
UsedStore(r) ==
    LET key == CarriedKey(r)
    IN  Truthy(key) =>
           /\ key \in Live(session_contexts')
           /\ touched'[Len(touched')] = key
           /\ turn'.deps.session_id = key
           /\ Truthy(CarriedName(r)) =>
                  /\ Truthy(heap'[CtxOf(session_contexts', key)].user_name)
                  /\ key \notin Live(session_contexts) =>
                         heap'[CtxOf(session_contexts', key)].user_name = CarriedName(r)

Holding(i) == flights[i].tool /= "none" /\ ~flights[i].lost

\* one record for a key: the store has a key once, in the order of the last
\* calls and within its capacity; every stopped tool holds the record the
\* store has for its key; and the heap has no other record
OneRecordPerKey ==
    /\ \A i, j \in DOMAIN session_contexts :
          session_contexts[i].key = session_contexts[j].key => i = j
    /\ Len(session_contexts) <= MAX_SESSIONS
    /\ touched = [i \in DOMAIN session_contexts |-> session_contexts[i].key]
    /\ \A i \in DOMAIN flights :
          Holding(i) =>
             /\ flights[i].sid \in Live(session_contexts)
             /\ flights[i].held = CtxOf(session_contexts, flights[i].sid)
    /\ \A i, j \in DOMAIN flights :
          (Holding(i) /\ Holding(j) /\ flights[i].sid = flights[j].sid)
             => flights[i].held = flights[j].held
    /\ \A o \in DOMAIN heap :
          (\A i \in DOMAIN flights : flights[i].tool /= "none" => flights[i].held /= o)
             => o \in Referenced(session_contexts)

\* the step is a handler of /chat/completions that called get_session_context
HandlerCalled ==
    /\ requests' = requests + 1
    /\ ServerRequests[turn'.req].endpoint = "/chat/completions"
    /\ ServerRequests[turn'.req].json_ok
    /\ Truthy(turn'.session_id)

C20_CreationTimeNeverChanges ==
    [][/\ \A o \in DOMAIN heap \cap DOMAIN heap' :
             heap'[o].last_interaction_time = heap[o].last_interaction_time
       /\ \A o \in DOMAIN heap' \ DOMAIN heap :
             heap'[o].last_interaction_time = Now]_vars

\* a record made by the first request has its name captured, was looked up by
\* a second request and by a tool that wrote to it, and bears the first time
C20_Witness ==
    /\ requests > 1
    /\ kAlice42 \in Live(session_contexts)
    /\ LET c == heap[CtxOf(session_contexts, kAlice42)]
       IN  /\ c.last_interaction_time = 1
           /\ c.user_name = sAlice
           /\ c.food_pairing = sBeef
    /\ \E i, j \in DOMAIN flights :
          i /= j /\ flights[i].sid = kAlice42 /\ flights[j].sid = kAlice42

(***************************************************************************)
(* Properties of search_wines_tool (specification SpecSearch).             *)
(***************************************************************************)
\* C17: with any combination of filters for which the data access answers no
\* record, search_wines_tool raises nothing and returns a text that is not
\* empty; the same filters with the same empty answer give the same text.
C17_NoWinesIsAnAnswer ==
    (pc = "returned" /\ result.wines = << >>) =>
        /\ result.return /= << >>
        /\ result.return = sNoWines
        /\ \A i \in DOMAIN result.return : result.return[i] \in STRING

\* a search by region and price range found nothing and was answered; the
\* record of the session is as the handler left it
C17_Witness ==
    /\ pc = "returned"
    /\ result.wines = << >>
    /\ arg.region = sBurgundy /\ arg.min_price = s10 /\ arg.max_price = s20
    /\ Len(result.return) > 0
    /\ heap[CtxOf(session_contexts, kAlice42)] = CaptureName(SessionContext(1), sAlice)

(***************************************************************************)
(* Properties of the data-access module (specification SpecDatabase).      *)
(***************************************************************************)
\* C18: when taking the connection or the query raises, a query function
\* raises nothing and returns its empty result: the empty list, None, or
\* False for add_user_pension_selection; so the caller gets what it gets
\* when nothing is found.
C18_FailureIsTheEmptyResult ==
    pc = "called" =>
        /\ result.status = "returned"
        /\ result.raised =>
              /\ arg.fn \in ListFunctions => result.value.list = << >>
              /\ arg.fn \in RowFunctions => result.value.row = None
              /\ arg.fn \in BoolFunctions => result.value.ok = FALSE
              /\ arg.fn \notin BoolFunctions =>
                    result.value = query_function(arg.fn, "Pool", "none",
                                                  << << >>, << >> >>).value
        /\ arg.fault \in {"acquire", "query"} => result.raised

\* the pool could not be made for get_all_schemes, the connection could not
\* be taken for get_scheme_by_name, or the insert of
\* add_user_pension_selection failed, and the empty result came back
C18_Witness ==
    /\ pc = "called"
    /\ result.raised
    /\ \/ arg.fn = "get_all_schemes" /\ arg.fault = "create_pool"
          /\ arg.answers[1] = << sNest >> /\ result.value.list = << >>
       \/ arg.fn = "get_scheme_by_name" /\ arg.fault = "acquire"
          /\ arg.answers[1] = << sNest >> /\ result.value.row = None
       \/ arg.fn = "add_user_pension_selection" /\ arg.fault = "query"
          /\ ~result.value.ok

(***************************************************************************)
(* Properties of the endpoints, continued (specification SpecServer).      *)
(***************************************************************************)
\* C21: a /chat/completions request from which neither a session key nor a
\* name is resolved is not an error: no error answer is made and the agent
\* run begins, its prompt is the user message with no annotation, its deps
\* carry a session id made for this request, which no session of the store
\* and no other run in flight has, and the handler leaves the store and its
\* records as they were.
C21_NoIdentityIsNotAnError ==
    [][(/\ Began
        /\ ServerRequests[turn'.req].endpoint = "/chat/completions"
        /\ ~Truthy(CarriedKey(turn'.req))
        /\ ~Truthy(CarriedName(turn'.req))) =>
          LET messages == ServerRequests[turn'.req].req.body.messages
              sid == turn'.deps.session_id
          IN  /\ response' = response
              /\ Len(flights') = Len(flights) + 1
              /\ flights'[Len(flights')].sid = sid
              /\ ServerIdentityOf[turn'.req].prompt = UserMessage(messages)
              /\ ~Truthy(turn'.session_id)
              /\ Truthy(sid)
              /\ sid \notin Live(session_contexts')
              /\ \A i \in DOMAIN flights : flights[i].sid /= sid
              /\ session_contexts' = session_contexts
              /\ heap' = heap]_vars

\* the request with no key and no name was served while the store holds the
\* session of an earlier request; its run is in flight under an id that the
\* store does not hold
C21_Witness ==
    /\ turn.served
    /\ ServerRequests[turn.req].endpoint = "/chat/completions"
    /\ ServerRequests[turn.req].json_ok
    /\ ~Truthy(turn.session_id)
    /\ ServerIdentityOf[turn.req].prompt = sHi
    /\ kAlice42 \in Live(session_contexts)
    /\ flights /= << >>
    /\ flights[Len(flights)].sid = turn.deps.session_id
    /\ turn.deps.session_id \notin Live(session_contexts)

(***************************************************************************)
(* Properties of the server under load (specification SpecLoad).           *)
(***************************************************************************)
\* the step is the call of a tool by run i, up to its await: in SpecLoad a
\* call of get_session_context and nothing else
ToolCalled(i) ==
    /\ Len(flights') = Len(flights)
    /\ flights[i].tool = "none"
    /\ flights'[i].tool /= "none"

\* the step is the return of the tool of run i
ToolReturned(i) ==
    /\ Len(flights') = Len(flights)
    /\ flights[i].tool /= "none"
    /\ flights'[i].tool = "none"

\* record c is as constructed at time now, but for the user name
Fresh(c, now, user_name) ==
    /\ c.turns_since_name_used = 0
    /\ ~c.name_used_in_greeting
    /\ ~c.greeted_this_session
    /\ c.last_topic = << >>
    /\ c.last_interaction_time = now
    /\ c.user_name = user_name
    /\ ~c.context_fetched
    /\ c.current_wine = None
    /\ c.preferred_region = None
    /\ c.budget_min = None
    /\ c.budget_max = None
    /\ c.occasion = None
    /\ c.food_pairing = None

\* C22: the record get_session_context returns for a key that is not live is
\* default-initialized: to a tool it comes with no user name, no filter, no
\* wine, zero counters and nothing fetched; the handler finds it so and
\* captures the name of its request in it (or leaves the name unset when the
\* request has none). This holds as well for a key that was live and was
\* evicted, whatever the evicted record held.
C22_NewRecordIsDefault ==
    [][/\ (HandlerCalled /\ turn'.session_id \notin Live(session_contexts)) =>
             /\ turn'.ctx = CtxOf(session_contexts', turn'.session_id)
             /\ turn'.ctx \notin DOMAIN heap
             /\ Fresh(heap'[turn'.ctx], Now,
                      IF Truthy(CarriedName(turn'.req)) THEN CarriedName(turn'.req)
                      ELSE None)
       /\ \A i \in DOMAIN flights :
             (ToolCalled(i) /\ flights[i].sid \notin Live(session_contexts)) =>
                /\ flights'[i].held = CtxOf(session_contexts', flights[i].sid)
                /\ flights'[i].held \notin DOMAIN heap
                /\ Fresh(heap'[flights'[i].held], Now, None)]_vars

\* the session Alice|42 was evicted while a tool of its first run held its
\* record, in which the name Alice is captured; the key is live again with a
\* new record, in which the name Bob of the later request is captured
C22_Witness ==
    /\ kAlice42 \in Live(session_contexts)
    /\ Fresh(heap[CtxOf(session_contexts, kAlice42)], Len(LoadScript), sBob)
    /\ \E i \in DOMAIN flights :
          /\ flights[i].sid = kAlice42
          /\ flights[i].tool /= "none"
          /\ flights[i].lost
          /\ flights[i].held /= CtxOf(session_contexts, kAlice42)
          /\ heap[flights[i].held].user_name = sAlice

\* the keys a step removes from the store
Removed == Live(session_contexts) \ Live(session_contexts')

\* C23: a call of get_session_context removes a key only when the key it is
\* called for is absent and the store holds MAX_SESSIONS keys, and then it
\* removes one key, the least recently used; called for a live key it leaves
\* the live keys, the record of every key and the contents of every record as
\* they were, on a full store too, and moves the key to the end of the order.
C23_RemovesOnlyWhenFullAndAbsent ==
    [][/\ HandlerCalled =>
             /\ Removed /= {} =>
                   /\ turn'.session_id \notin Live(session_contexts)
                   /\ Len(session_contexts) = MAX_SESSIONS
                   /\ Removed = { session_contexts[1].key }
             /\ turn'.session_id \in Live(session_contexts) =>
                   /\ Live(session_contexts') = Live(session_contexts)
                   /\ \A k \in Live(session_contexts) \ { turn'.session_id } :
                         /\ CtxOf(session_contexts', k) = CtxOf(session_contexts, k)
                         /\ heap'[CtxOf(session_contexts, k)] = heap[CtxOf(session_contexts, k)]
       /\ \A i \in DOMAIN flights :
             ToolCalled(i) =>
                /\ Removed /= {} =>
                      /\ flights[i].sid \notin Live(session_contexts)
                      /\ Len(session_contexts) = MAX_SESSIONS
                      /\ Removed = { session_contexts[1].key }
                /\ flights[i].sid \in Live(session_contexts) =>
                      /\ Live(session_contexts') = Live(session_contexts)
                      /\ session_contexts' = MoveToEnd(session_contexts, flights[i].sid)
                      /\ \A k \in Live(session_contexts) :
                            /\ CtxOf(session_contexts', k) = CtxOf(session_contexts, k)
                            /\ heap'[CtxOf(session_contexts, k)] = heap[CtxOf(session_contexts, k)]]_vars

\* the store is full and a tool has called get_session_context for a key of
\* it that was not the most recent: no key was removed, the tool holds the
\* record the handler made (the name is captured in it) and the key is now
\* the most recent
C23_Witness ==
    /\ Len(session_contexts) = MAX_SESSIONS
    /\ evicted = {}
    /\ requests = MAX_SESSIONS
    /\ session_contexts[Len(session_contexts)].key = kAlice42
    /\ \E i \in DOMAIN flights :
          /\ flights[i].sid = kAlice42
          /\ Holding(i)
          /\ flights[i].held = CtxOf(session_contexts, kAlice42)
          /\ heap[flights[i].held].user_name = sAlice
          /\ heap[flights[i].held].last_interaction_time = 1

\* what the next call of get_session_context for key sid returns, after the step
SeenNext(sid) ==
    LET next == get_session_context(session_contexts', heap', sid, Now')
    IN  next.heap[next.ctx]

\* C24: with several requests in flight, the filter that search_wines_tool or
\* get_wine_details_tool writes after its await to the record it got from
\* get_session_context is in the record that the next call of
\* get_session_context for the session key returns.
C24_ToolWriteIsSeenByNextLookup ==
    [][\A i \in DOMAIN flights :
          (ToolReturned(i) /\ result'.wines /= << >>) =>
             LET f == flights[i]
             IN  /\ (f.tool = "search_wines_tool" /\ Truthy(f.args.region)) =>
                       SeenNext(f.sid).preferred_region = f.args.region
                 /\ (f.tool = "search_wines_tool" /\ NumTruthy(f.args.min_price)) =>
                       SeenNext(f.sid).budget_min = f.args.min_price
                 /\ (f.tool = "search_wines_tool" /\ NumTruthy(f.args.max_price)) =>
                       SeenNext(f.sid).budget_max = f.args.max_price
                 /\ f.tool = "get_wine_details_tool" =>
                       SeenNext(f.sid).current_wine = result'.wines[1].name]_vars

(***************************************************************************)
(* Properties of Database.get_pool (specification SpecPool).               *)
(***************************************************************************)
\* the calls whose create_pool was invoked and has not raised
Making == { i \in DOMAIN flights : flights[i].made /= "None" /\ flights[i].at /= "raised" }

\* C25: Database.get_pool makes one connection pool at most: when several
\* coroutines call it before the first pool exists, create_pool is invoked
\* once (again only after it raised) and every call returns the same pool,
\* the one Database._pool holds.
C25_OnePoolForAllCallers ==
    /\ Cardinality(Making) <= 1
    /\ \A i, j \in DOMAIN flights :
          (flights[i].at = "returned" /\ flights[j].at = "returned")
             => flights[i].got = flights[j].got
    /\ \A i \in DOMAIN flights : flights[i].at = "returned" => flights[i].got = pool

(***************************************************************************)
(* Properties of the prompt (specification Spec).                          *)
(***************************************************************************)
\* the name composed from a request: the name of its first system message,
\* else the name of its session key
ComposedName(req) ==
    LET sys_name == extract_user_from_messages(req.body.messages)[1]
        key_name == extract_user_from_session(extract_session_id(req))[1]
    IN  IF sys_name /= None /\ sys_name /= << >> THEN sys_name ELSE key_name

\* C26: the prompt of a /chat/completions turn is "[User's name is <name>] "
\* followed by the user message when the name composed from the request is
\* not empty, and the user message alone otherwise; it is a function of the
\* request, whatever user_name the record of the session holds.
C26_PromptFollowsTheRequestName ==
    turn.served =>
       LET req == ChatRequests[turn.req]
           name == ComposedName(req)
           message == UserMessage(req.body.messages)
       IN  /\ (name /= None /\ name /= << >>) =>
                 Id.prompt = <<"[","U","s","e","r","'","s"," ","n","a","m","e"," ","i","s"," ">>
                                \o name \o <<"]"," ">> \o message
           /\ (name = None \/ name = << >>) => Id.prompt = message

\* the record of session user|42 holds the name Bob, captured from an earlier
\* request; the request of the turn carries no name and its prompt is the
\* bare user message
C26_Witness ==
    /\ turn.served
    /\ turn.session_id = kUser42
    /\ heap[turn.ctx].user_name = sBob
    /\ ComposedName(ChatRequests[turn.req]) = None
    /\ Id.prompt = sHi

(***************************************************************************)
(* Properties of the tools' writes (specification SpecTools).              *)
(***************************************************************************)
\* the record of the session of the run
Record == heap[CtxOf(session_contexts, kAlice42)]

\* records c and d differ in the fields of names at most
SameBut(c, d, names) ==
    \A f \in DOMAIN c : f \notin names => c[f] = d[f]

\* C27: search_wines_tool leaves every field of the record as it was up to
\* its await and when the search finds nothing; when the search finds a wine
\* it sets preferred_region, budget_min, budget_max to the argument where
\* the argument is truthy and leaves every other field alone.
\* get_wines_by_region_tool, get_wines_by_price_tool and
\* get_food_pairing_tool set their filter (preferred_region; budget_min and
\* budget_max; food_pairing) to the argument before they await, nothing else,
\* and the record stays so whatever the query answers.
C27_ToolWritesOnlyItsFilters ==
    LET a == arg.args
        before == arg.before
        Set(truthy, field, value) ==
            Record[field] = IF truthy THEN value ELSE before[field]
    IN  pc \in {"await", "returned"} =>
          /\ arg.tool = "search_wines_tool" =>
                IF pc = "returned" /\ result.wines /= << >>
                THEN /\ SameBut(Record, before,
                                {"preferred_region", "budget_min", "budget_max"})
                     /\ Set(a.region /= None /\ a.region /= << >>,
                            "preferred_region", a.region)
                     /\ Set(a.min_price /= None /\ a.min_price /= << "0" >>,
                            "budget_min", a.min_price)
                     /\ Set(a.max_price /= None /\ a.max_price /= << "0" >>,
                            "budget_max", a.max_price)
                ELSE Record = before
          /\ arg.tool = "get_wines_by_region_tool" =>
                /\ SameBut(Record, before, {"preferred_region"})
                /\ Record.preferred_region = a.region
          /\ arg.tool = "get_wines_by_price_tool" =>
                /\ SameBut(Record, before, {"budget_min", "budget_max"})
                /\ Record.budget_min = a.min_price
                /\ Record.budget_max = a.max_price
          /\ arg.tool = "get_food_pairing_tool" =>
                /\ SameBut(Record, before, {"food_pairing"})
                /\ Record.food_pairing = a.food

\* search_wines_tool with a region, min_price 0 and a max_price found a wine
\* on a record with earlier filters: region and budget_max are the
\* arguments, budget_min is the earlier one
C27_Witness ==
    /\ pc = "returned"
    /\ arg.tool = "search_wines_tool"
    /\ result.wines /= << >>
    /\ arg.args.region = sBurgundy /\ arg.args.min_price = << "0" >>
    /\ arg.args.max_price = s20
    /\ arg.before.budget_min = s5
    /\ Record.preferred_region = sBurgundy
    /\ Record.budget_min = s5
    /\ Record.budget_max = s20
    /\ Record.food_pairing = sFish

====
